---- MODULE Spec2Model ----
(***************************************************************************)
(* The authentication and session-trust engine of milemoto-serverside:     *)
(* services/auth.service.ts, services/mfa.service.ts,                      *)
(* routes/auth/auth.helpers.ts and config/runtime.ts, over the tables      *)
(* users, sessions, trusted_devices, mfa_login_challenges, mfa_challenges, *)
(* mfa_backup_codes, password_resets and email_verifications.              *)
(*                                                                         *)
(* Every table is a function from the row id to the row. A NULL column is  *)
(* the value NULL; revoked_at, used_at and consumed_at are only ever       *)
(* tested for NULL by the code, so they hold NULL or the time they were    *)
(* set reduced to SET. Time is the integer clock `now`.                    *)
(***************************************************************************)
EXTENDS Integers, Sequences, FiniteSets, TLC

(* ------------------------------ bounds -------------------------------- *)

MaxTime == 2
MaxSessions == 3
MaxDevices == 1
MaxLoginChallenges == 2
MaxEnrollChallenges == 2
MaxBatches == 2
MaxResets == 2
MaxCodeIdx == 1
MaxVerifications == 2

(* --------------------------- program constants ------------------------ *)

\* The durations are deployment settings (env); here they are counted in steps of the
\* model clock, short enough for every expiry to happen within MaxTime.

USER_SESSION_REFRESH_TTL_SEC == 1
USER_REFRESH_TOKEN_TTL_SEC == 2
ADMIN_SESSION_REFRESH_TTL_SEC == 1
ADMIN_REFRESH_TOKEN_TTL_SEC == 1
MFA_LOGIN_TTL_SEC == 1
MFA_CHALLENGE_TTL_SEC == 1
TRUSTED_DEVICE_TTL_DAYS == 2
PASSWORD_RESET_TTL_MS == 1
BACKUP_CODE_COUNT == 10
EMAIL_VERIFY_TTL_MS == 1

NULL == 0
SET == 1

Users == {1, 2}
Passwords == {"pwA", "pwB"}
Fingerprints == {"fpA", "fpB"}

VARIABLES
    now,            \* the database clock (dbNow, NOW(), new Date())
    users,          \* table users
    sessions,       \* table sessions
    sidCtr,         \* session ids generated so far (ulid())
    devices,        \* table trusted_devices
    loginCh,        \* table mfa_login_challenges
    enrollCh,       \* table mfa_challenges
    backupCodes,    \* table mfa_backup_codes
    batchCtr,       \* batches of backup codes generated so far
    resets,         \* table password_resets
    fpEnforceAll,   \* runtimeFlags.trustedDeviceFpEnforceAll
    inflight,       \* refresh requests between two of their storage calls
    emailVer,       \* table email_verifications
    calls,          \* other requests between two of their storage calls
    resp            \* the last completed request and its answer

vars == <<now, users, sessions, sidCtr, devices, loginCh, enrollCh, backupCodes,
          batchCtr, resets, fpEnforceAll, inflight, emailVer, calls, resp>>

dbVars == <<users, sessions, sidCtr, devices, loginCh, enrollCh, backupCodes,
            batchCtr, resets>>

(* ------------------------- black-box capabilities --------------------- *)

\* argon2.hash / argon2.verify: a hash verifies exactly the password it was made of.
Argon2Hash(pw) == [argon2id |-> pw]
Argon2Verify(hash, pw) == hash = Argon2Hash(pw)

\* utils/crypto sha256: injective on the values the model feeds it.
Sha256(x) == [sha256 |-> x]

\* utils/jwt signRefresh / verifyRefresh: a signed token carries {sub, sid};
\* a token that was not signed by the server does not verify.
SignRefresh(sub, sid) == [sub |-> sub, sid |-> sid, signed |-> TRUE]
ForgedRefresh == [sub |-> 1, sid |-> 1, signed |-> FALSE]
VerifyRefreshOk(token) == token.signed

ttlForRole(role, remember) ==
    IF role = "admin"
    THEN (IF remember THEN ADMIN_REFRESH_TOKEN_TTL_SEC ELSE ADMIN_SESSION_REFRESH_TTL_SEC)
    ELSE (IF remember THEN USER_REFRESH_TOKEN_TTL_SEC ELSE USER_SESSION_REFRESH_TTL_SEC)

(* ------------------------------ sessions ------------------------------ *)

NewSessionRow(userId, token, remember, exp) ==
    [user_id |-> userId, refresh_hash |-> Sha256(token), remember |-> remember,
     expires_at |-> exp, revoked_at |-> NULL, replaced_by |-> NULL]

\* INSERT INTO sessions (id, user_id, refresh_hash, ..., remember, expires_at)
InsertSession(ss, sid, userId, token, remember, exp) ==
    [x \in DOMAIN ss \cup {sid} |->
        IF x = sid THEN NewSessionRow(userId, token, remember, exp) ELSE ss[x]]

\* UPDATE sessions SET revoked_at = NOW() WHERE id = ?
RevokeSession(ss, sid) ==
    [x \in DOMAIN ss |-> IF x = sid THEN [ss[x] EXCEPT !.revoked_at = SET] ELSE ss[x]]

\* the rotation's UPDATE with the revoked_at assignment left out
RevokeReplacedKeepsRowLive(ss, sid, newSid) ==
    [x \in DOMAIN ss |->
        IF x = sid THEN [ss[x] EXCEPT !.replaced_by = newSid] ELSE ss[x]]

\* the rotation writing the new token's hash into the presented row
RevokeReplacedInPlace(ss, sid, newSid) ==
    [x \in DOMAIN ss |->
        IF x = sid
        THEN [ss[x] EXCEPT !.refresh_hash = Sha256(SignRefresh(ss[x].user_id, newSid))]
        ELSE ss[x]]

\* UPDATE sessions SET revoked_at = NOW(), replaced_by = ? WHERE id = ?
RevokeReplaced(ss, sid, newSid) ==
    [x \in DOMAIN ss |->
        IF x = sid THEN [ss[x] EXCEPT !.revoked_at = SET, !.replaced_by = newSid]
        ELSE ss[x]]

\* the password operations' session UPDATE left out
RevokeUserSessionsLeftOut(ss, userId) == ss

\* UPDATE sessions SET revoked_at = NOW() WHERE user_id = ?
RevokeUserSessions(ss, userId) ==
    [x \in DOMAIN ss |->
        IF ss[x].user_id = userId THEN [ss[x] EXCEPT !.revoked_at = SET] ELSE ss[x]]

\* SELECT ... FROM sessions WHERE id = ? AND user_id = ? LIMIT 1
SessionFound(ss, token) ==
    token.sid \in DOMAIN ss /\ ss[token.sid].user_id = token.sub

\* the revoked_at test left out of the checks
RefreshVerdictIgnoresRevoked(ss, token, t) ==
    IF ~SessionFound(ss, token) THEN "InvalidSession"
    ELSE IF ss[token.sid].expires_at < t THEN "InvalidSession"
    ELSE IF Sha256(token) # ss[token.sid].refresh_hash THEN "TokenReuse"
    ELSE "ok"

\* refresh's checks on the row it read: the error it throws, or "ok"
RefreshVerdict(ss, token, t) ==
    IF ~SessionFound(ss, token) THEN "InvalidSession"
    ELSE IF ss[token.sid].revoked_at # NULL THEN "InvalidSession"
    ELSE IF ss[token.sid].expires_at < t THEN "InvalidSession"
    ELSE IF Sha256(token) # ss[token.sid].refresh_hash THEN "TokenReuse"
    ELSE "ok"

\* every refresh token the server has ever signed and stored
IssuedTokens == {SignRefresh(sessions[s].user_id, s) : s \in DOMAIN sessions}

(* --------------------------- trusted devices -------------------------- *)

\* crypto.randomBytes(32): the token minted for device id d (never repeated)
DeviceToken(d) == [rand |-> d]

\* the cookie mm_trusted: absent, or `id.token`
NoCookie == [kind |-> "none"]
DeviceCookie(d, k) == [kind |-> "device", id |-> d, token |-> DeviceToken(k)]

\* signTrustedDevice: the legacy cookie `body.sig`, body the payload {sub, exp} and sig
\* its HMAC; a forged one carries another signature
TrustedHmac(body) == [hmac |-> body]
NullPayload == [sub |-> NULL, exp |-> NULL]
LegacyCookie(sub, exp, genuine) ==
    [kind |-> "legacy", body |-> [sub |-> sub, exp |-> exp],
     sig |-> IF genuine THEN TrustedHmac([sub |-> sub, exp |-> exp])
             ELSE TrustedHmac(NullPayload)]
\* a cookie value without a dot
OpaqueCookie == [kind |-> "opaque"]

\* const [id, token] = raw.split('.'); if (id && token): both formats have two pieces
HasIdAndToken(cookie) == cookie.kind \in {"device", "legacy"}

\* SELECT ... FROM trusted_devices WHERE id = ? LIMIT 1 finds a row: ids are ULIDs, and
\* the base64url body of a legacy cookie is the id of no row
DeviceRowFound(ds, cookie) == cookie.kind = "device" /\ cookie.id \in DOMAIN ds

\* verifyTrustedDevice(raw): the payload of a cookie whose signature is the HMAC of its
\* body, null otherwise
verifyTrustedDevice(cookie) ==
    IF cookie.kind = "legacy" /\ cookie.sig = TrustedHmac(cookie.body) THEN cookie.body
    ELSE NullPayload

\* the legacy test at the end of validateTrustedCookie
LegacyAccepted(cookie, userId, t) ==
    LET legacy == verifyTrustedDevice(cookie) IN
    legacy # NullPayload /\ legacy.sub = userId /\ legacy.exp > t

NewDeviceRow(userId, d, fp, exp) ==
    [user_id |-> userId, token_hash |-> Sha256(DeviceToken(d)),
     fingerprint |-> Sha256(fp), expires_at |-> exp, revoked_at |-> NULL]

\* createTrustedDevice: INSERT INTO trusted_devices (a new id, a new token)
InsertDevice(ds, userId, fp, t) ==
    LET d == Len(ds) + 1
    IN  Append(ds, NewDeviceRow(userId, d, fp, t + TRUSTED_DEVICE_TTL_DAYS))

\* the revocation of the user's devices left out
revokeAllTrustedDevicesLeftOut(ds, userId) == ds

\* UPDATE trusted_devices SET revoked_at = NOW() WHERE user_id = ? AND revoked_at IS NULL
revokeAllTrustedDevices(ds, userId) ==
    [d \in DOMAIN ds |->
        IF ds[d].user_id = userId /\ ds[d].revoked_at = NULL
        THEN [ds[d] EXCEPT !.revoked_at = SET] ELSE ds[d]]

\* UPDATE trusted_devices SET revoked_at = NOW() WHERE id = ?
RevokeDeviceById(ds, id) ==
    [d \in DOMAIN ds |-> IF d = id THEN [ds[d] EXCEPT !.revoked_at = SET] ELSE ds[d]]

\* the owner-scoped revocation with the owner test left out
RevokeDeviceOfUserAnyOwner(ds, id, userId) ==
    [d \in DOMAIN ds |->
        IF d = id
        THEN [ds[d] EXCEPT !.revoked_at = SET] ELSE ds[d]]

\* UPDATE trusted_devices SET revoked_at = NOW() WHERE id = ? AND user_id = ?
RevokeDeviceOfUser(ds, id, userId) ==
    [d \in DOMAIN ds |->
        IF d = id /\ ds[d].user_id = userId
        THEN [ds[d] EXCEPT !.revoked_at = SET] ELSE ds[d]]

\* the validation with the fingerprint test left out
validateTrustedCookieNoFingerprint(ds, cookie, userId, role, fp, t, enforceAll) ==
    IF cookie.kind = "none" THEN FALSE
    ELSE IF ~HasIdAndToken(cookie) THEN LegacyAccepted(cookie, userId, t)
    ELSE IF ~DeviceRowFound(ds, cookie) THEN FALSE
    ELSE IF ds[cookie.id].user_id # userId THEN FALSE
    ELSE IF ds[cookie.id].revoked_at # NULL THEN FALSE
    ELSE IF ds[cookie.id].expires_at <= t THEN FALSE
    ELSE IF Sha256(cookie.token) # ds[cookie.id].token_hash THEN FALSE
    ELSE TRUE

\* the validation with the revoked_at test left out
validateTrustedCookieIgnoresRevoked(ds, cookie, userId, role, fp, t, enforceAll) ==
    IF cookie.kind = "none" THEN FALSE
    ELSE IF ~HasIdAndToken(cookie) THEN LegacyAccepted(cookie, userId, t)
    ELSE IF ~DeviceRowFound(ds, cookie) THEN FALSE
    ELSE IF ds[cookie.id].user_id # userId THEN FALSE
    ELSE IF ds[cookie.id].expires_at <= t THEN FALSE
    ELSE IF Sha256(cookie.token) # ds[cookie.id].token_hash THEN FALSE
    ELSE IF (role = "admin" \/ enforceAll) /\ Sha256(fp) # ds[cookie.id].fingerprint
         THEN FALSE
    ELSE TRUE

\* the validation with the token-hash test left out
validateTrustedCookieNoTokenTest(ds, cookie, userId, role, fp, t, enforceAll) ==
    IF cookie.kind = "none" THEN FALSE
    ELSE IF ~HasIdAndToken(cookie) THEN LegacyAccepted(cookie, userId, t)
    ELSE IF ~DeviceRowFound(ds, cookie) THEN FALSE
    ELSE IF ds[cookie.id].user_id # userId THEN FALSE
    ELSE IF ds[cookie.id].revoked_at # NULL THEN FALSE
    ELSE IF ds[cookie.id].expires_at <= t THEN FALSE
    ELSE IF (role = "admin" \/ enforceAll) /\ Sha256(fp) # ds[cookie.id].fingerprint THEN FALSE
    ELSE TRUE

\* validateTrustedCookie: split the cookie at the dots; with an id and a token, SELECT
\* the row by id, then the tests on it; otherwise the legacy test; any error inside is
\* caught and answers false
validateTrustedCookie(ds, cookie, userId, role, fp, t, enforceAll) ==
    IF cookie.kind = "none" THEN FALSE
    ELSE IF ~HasIdAndToken(cookie) THEN LegacyAccepted(cookie, userId, t)
    ELSE IF ~DeviceRowFound(ds, cookie) THEN FALSE
    ELSE IF ds[cookie.id].user_id # userId THEN FALSE
    ELSE IF ds[cookie.id].revoked_at # NULL THEN FALSE
    ELSE IF ds[cookie.id].expires_at <= t THEN FALSE
    ELSE IF Sha256(cookie.token) # ds[cookie.id].token_hash THEN FALSE
    ELSE IF (role = "admin" \/ enforceAll) /\ Sha256(fp) # ds[cookie.id].fingerprint
         THEN FALSE
    ELSE TRUE

\* the cookies a request may carry: none, or any id with any token
Cookies == {NoCookie} \cup {DeviceCookie(d, k) : d \in 1..MaxDevices, k \in 0..MaxDevices}

(* ------------------------------ MFA ----------------------------------- *)

\* generateTotpSecret: the secret generated for enrollment challenge c
TotpSecret(c) == c
encryptToBlob(raw) == [blob |-> raw]
\* a NULL mfa_secret_enc column
NullBlob == [blob |-> NULL]
decryptFromBlob(enc) == enc.blob

\* the 6-digit code of a secret at a time step
Totp(secretRaw, t) == [kind |-> "digits6", of |-> secretRaw, step |-> t]
verifyTotp(code, secretRaw, t) == code = Totp(secretRaw, t)

\* a backup code as typed: code idx of batch b, with or without the hyphen
BackupText(b, k, hyphens) == [kind |-> "text", batch |-> b, idx |-> k, hyphens |-> hyphens]
\* code.toUpperCase().trim(): the typed codes of the model are upper-case and trimmed
UpperTrim(text) == text
\* rawInput.length > 4 ? rawInput.slice(0, 4) + '-' + rawInput.slice(4) : rawInput
Pretty(text) ==
    IF text.kind = "text" THEN [text EXCEPT !.hyphens = @ + 1]
    ELSE [kind |-> "hyphenated", of |-> text]
backupHash(text) == [hmac |-> text]
IsSixDigits(code) == code.kind = "digits6"

\* generateBackupCodes (utils/totp): the codes of batch b, as stored and shown
StoredHyphens == 1
GeneratedCode(b, k) == BackupText(b, k, StoredHyphens)

BackupRowId(b, k) == (b - 1) * BACKUP_CODE_COUNT + k

\* INSERT INTO mfa_backup_codes (user_id, code_hash) VALUES ... (ten rows)
InsertBackupBatch(bc, userId, b) ==
    LET ids == {BackupRowId(b, k) : k \in 1..BACKUP_CODE_COUNT}
    IN  [r \in DOMAIN bc \cup ids |->
            IF r \in ids
            THEN [user_id |-> userId,
                  code_hash |-> backupHash(GeneratedCode(b, r - (b - 1) * BACKUP_CODE_COUNT)),
                  used_at |-> NULL]
            ELSE bc[r]]

\* SELECT id FROM mfa_backup_codes WHERE user_id = ? AND code_hash = ? AND used_at IS NULL
UnusedBackupRows(bc, userId, h) ==
    {r \in DOMAIN bc : bc[r].user_id = userId /\ bc[r].code_hash = h /\ bc[r].used_at = NULL}

\* the used_at UPDATE left out
MarkBackupUsedLeftOut(bc, r) == bc

\* UPDATE mfa_backup_codes SET used_at = NOW() WHERE id = ?
MarkBackupUsed(bc, r) == [bc EXCEPT ![r].used_at = SET]

\* UPDATE mfa_backup_codes SET used_at = NOW() WHERE user_id = ? AND used_at IS NULL
MarkAllBackupUsed(bc, userId) ==
    [r \in DOMAIN bc |->
        IF bc[r].user_id = userId /\ bc[r].used_at = NULL
        THEN [bc[r] EXCEPT !.used_at = SET] ELSE bc[r]]

\* DELETE FROM mfa_backup_codes WHERE user_id = ?
DeleteBackupCodes(bc, userId) ==
    [r \in {x \in DOMAIN bc : bc[x].user_id # userId} |-> bc[r]]

\* the codes a caller may type: the 6-digit code of an issued secret at the current or
\* at another time step, a backup code of an issued batch typed with or without its
\* hyphen, and a text that was never issued
TypedTotp(t) == {Totp(TotpSecret(c), x) : c \in DOMAIN enrollCh, x \in {t, t + 1}}
TypedBackup ==
    {BackupText(b, k, h) : b \in 1..batchCtr, k \in 1..MaxCodeIdx, h \in 0..1}
    \cup {BackupText(0, 1, 0)}
TypedCodes(t) == TypedTotp(t) \cup TypedBackup

\* the refresh requests that may be in flight together
Requests == {1, 2}
\* a request slot with no request in it
NoCall == [pc |-> "idle"]

\* the empty table email_verifications: its rows by id, and the last id handed out
NoVerifications == [last |-> 0, rows |-> << >>]

Idle == [pc |-> "idle", token |-> ForgedRefresh, newSid |-> NULL, code |-> "none"]

Answer(op, code, user, arg, made) ==
    [op |-> op, code |-> code, user |-> user, arg |-> arg, made |-> made]

Init ==
    /\ now = 0
    /\ users = [u \in Users |->
                  [password_hash |-> Argon2Hash("pwA"),
                   role |-> IF u = 1 THEN "user" ELSE "admin",
                   status |-> "active",
                   mfa_enabled |-> FALSE,
                   mfa_secret_enc |-> NullBlob,
                   email_verified_at |-> SET]]
    /\ sessions = << >>
    /\ sidCtr = 0
    /\ devices = << >>
    /\ loginCh = << >>
    /\ enrollCh = << >>
    /\ backupCodes = << >>
    /\ batchCtr = 0
    /\ resets = << >>
    /\ fpEnforceAll = FALSE
    /\ inflight = [r \in Requests |-> Idle]
    /\ emailVer = NoVerifications
    /\ calls = [r \in Requests |-> NoCall]
    /\ resp = Answer("boot", "ok", NULL, NULL, NULL)

(* ------------------------------ login --------------------------------- *)

\* SELECT ... FROM users WHERE email = ? LIMIT 1: each user's e-mail address is
\* written as the user's id, and NoSuchEmail is an address of no user
NoSuchEmail == 0
Emails == Users \cup {NoSuchEmail}

\* INSERT INTO mfa_login_challenges (id, user_id, remember, user_agent, ip, expires_at)
InsertLoginChallenge(lc, userId, remember, t) ==
    Append(lc, [user_id |-> userId, remember |-> remember,
                expires_at |-> t + MFA_LOGIN_TTL_SEC, consumed_at |-> NULL])

\* the e-mail verification tested before the password
LoginOutcomeVerifiedFirst(email, password, cookie, fp, tdFault) ==
    IF email \notin Users THEN "InvalidCredentials"
    ELSE IF users[email].status # "active" THEN "InvalidCredentials"
    ELSE IF users[email].email_verified_at = NULL THEN "EmailNotVerified"
    ELSE IF ~Argon2Verify(users[email].password_hash, password) THEN "InvalidCredentials"
    ELSE IF users[email].mfa_enabled
         THEN (IF ~tdFault /\ validateTrustedCookie(devices, cookie, email,
                                                     users[email].role, fp, now, fpEnforceAll)
               THEN "tokens" ELSE "mfaRequired")
    ELSE "tokens"

\* login answering with tokens when the trusted-device bypass throws
LoginOutcomeFailOpen(email, password, cookie, fp, tdFault) ==
    IF email \notin Users THEN "InvalidCredentials"
    ELSE IF users[email].status # "active" THEN "InvalidCredentials"
    ELSE IF ~Argon2Verify(users[email].password_hash, password) THEN "InvalidCredentials"
    ELSE IF users[email].email_verified_at = NULL THEN "EmailNotVerified"
    ELSE IF users[email].mfa_enabled
         THEN IF tdFault \/ validateTrustedCookie(devices, cookie, email, users[email].role,
                                                   fp, now, fpEnforceAll)
              THEN "tokens" ELSE "mfaRequired"
    ELSE "tokens"

\* the outcome of login before it writes: an error code, "tokens" or "mfaRequired".
\* tdFault: a storage call of the trusted-device bypass throws before the session row
\* is written (inside validateTrustedCookie, which then answers false, or the INSERT).
LoginOutcome(email, password, cookie, fp, tdFault) ==
    IF email \notin Users THEN "InvalidCredentials"
    ELSE IF users[email].status # "active" THEN "InvalidCredentials"
    ELSE IF ~Argon2Verify(users[email].password_hash, password) THEN "InvalidCredentials"
    ELSE IF users[email].email_verified_at = NULL THEN "EmailNotVerified"
    ELSE IF users[email].mfa_enabled
         THEN IF ~tdFault /\ validateTrustedCookie(devices, cookie, email, users[email].role,
                                                    fp, now, fpEnforceAll)
              THEN "tokens" ELSE "mfaRequired"
    ELSE "tokens"

\* login's write when it issues a session (the no-MFA path and the trusted-device path)
IssueSession(userId, remember) ==
    /\ sidCtr < MaxSessions
    /\ sidCtr' = sidCtr + 1
    /\ sessions' = InsertSession(sessions, sidCtr + 1, userId,
                                 SignRefresh(userId, sidCtr + 1), remember,
                                 now + ttlForRole(users[userId].role, remember))

\* what a login request carried besides the credentials
LoginArg(cookie, fp, tdFault) == [cookie |-> cookie, fp |-> fp, tdFault |-> tdFault]

Login(email, password, remember, cookie, fp, tdFault) ==
    LET out == LoginOutcome(email, password, cookie, fp, tdFault) IN
    /\ \/ /\ out = "tokens"
          /\ IssueSession(email, remember)
          /\ resp' = Answer("login", out, email, LoginArg(cookie, fp, tdFault), sidCtr + 1)
          /\ UNCHANGED loginCh
       \/ /\ out = "mfaRequired"
          /\ Len(loginCh) < MaxLoginChallenges
          /\ loginCh' = InsertLoginChallenge(loginCh, email, remember, now)
          /\ resp' = Answer("login", out, email, LoginArg(cookie, fp, tdFault),
                            Len(loginCh) + 1)
          /\ UNCHANGED <<sessions, sidCtr>>
       \/ /\ out \in {"InvalidCredentials", "EmailNotVerified"}
          /\ resp' = Answer("login", out, NULL, NULL, NULL)
          /\ UNCHANGED <<sessions, sidCtr, loginCh>>
    /\ UNCHANGED <<now, users, devices, enrollCh, backupCodes, batchCtr, resets,
                   fpEnforceAll, inflight, emailVer, calls>>

(* ------------------------------ refresh ------------------------------- *)

\* a token the server signed whose session row is not in the table
OrphanRefresh == SignRefresh(1, MaxSessions + 1)

\* the refresh cookies a request may carry
RefreshTokens == IssuedTokens \cup {ForgedRefresh, OrphanRefresh}

Refresh(token) ==
    LET verdict == IF ~VerifyRefreshOk(token) THEN "InvalidToken"
                   ELSE RefreshVerdict(sessions, token, now)
        newSid == sidCtr + 1
        s == sessions[token.sid]
    IN
    /\ \/ /\ verdict = "ok"
          /\ sidCtr < MaxSessions
          /\ sidCtr' = newSid
          /\ sessions' = InsertSession(RevokeReplaced(sessions, token.sid, newSid), newSid,
                            token.sub, SignRefresh(token.sub, newSid), s.remember,
                            now + ttlForRole(users[token.sub].role, s.remember))
          /\ resp' = Answer("refresh", "ok", token.sub, token, newSid)
       \/ /\ verdict = "TokenReuse"
          /\ sessions' = RevokeSession(sessions, token.sid)
          /\ resp' = Answer("refresh", verdict, NULL, token, NULL)
          /\ UNCHANGED sidCtr
       \/ /\ verdict \in {"InvalidSession", "InvalidToken"}
          /\ resp' = Answer("refresh", verdict, NULL, token, NULL)
          /\ UNCHANGED <<sessions, sidCtr>>
    /\ UNCHANGED <<now, users, devices, loginCh, enrollCh, backupCodes, batchCtr, resets,
                   fpEnforceAll, inflight, emailVer, calls>>

\* refresh, one storage call at a time. The request r reads the row and checks it
\* (lines 222-234); a request that fails answers at once.
RefreshRead(r, token) ==
    LET verdict == RefreshVerdict(sessions, token, now) IN
    /\ inflight[r].pc = "idle"
    /\ VerifyRefreshOk(token)
    /\ inflight' = [inflight EXCEPT ![r] =
                       [pc |-> IF verdict = "ok" THEN "revoke" ELSE "done",
                        token |-> token, newSid |-> NULL, code |-> verdict]]
    /\ sessions' = IF verdict = "TokenReuse" THEN RevokeSession(sessions, token.sid)
                   ELSE sessions
    /\ UNCHANGED <<now, users, sidCtr, devices, loginCh, enrollCh, backupCodes, batchCtr,
                   resets, fpEnforceAll, emailVer, calls, resp>>

\* newSid = ulid(); UPDATE sessions SET revoked_at = NOW(), replaced_by = ? WHERE id = ?
RefreshRevoke(r) ==
    /\ inflight[r].pc = "revoke"
    /\ sidCtr < MaxSessions
    /\ sidCtr' = sidCtr + 1
    /\ sessions' = RevokeReplaced(sessions, inflight[r].token.sid, sidCtr + 1)
    /\ inflight' = [inflight EXCEPT ![r].pc = "insert", ![r].newSid = sidCtr + 1]
    /\ UNCHANGED <<now, users, devices, loginCh, enrollCh, backupCodes, batchCtr, resets,
                   fpEnforceAll, emailVer, calls, resp>>

\* INSERT INTO sessions (the new row), then the answer with the new tokens
RefreshInsert(r) ==
    LET token == inflight[r].token
        remember == sessions[token.sid].remember
    IN
    /\ inflight[r].pc = "insert"
    /\ sessions' = InsertSession(sessions, inflight[r].newSid, token.sub,
                                 SignRefresh(token.sub, inflight[r].newSid), remember,
                                 now + ttlForRole(users[token.sub].role, remember))
    /\ inflight' = [inflight EXCEPT ![r].pc = "done", ![r].code = "ok"]
    /\ UNCHANGED <<now, users, sidCtr, devices, loginCh, enrollCh, backupCodes, batchCtr,
                   resets, fpEnforceAll, emailVer, calls, resp>>

\* the request ends after its UPDATE and before its INSERT: dbNow() or the INSERT throws,
\* or the process stops
RefreshStops(r) ==
    /\ inflight[r].pc = "insert"
    /\ inflight' = [inflight EXCEPT ![r].pc = "done", ![r].code = "InternalError"]
    /\ UNCHANGED <<now, dbVars, fpEnforceAll, emailVer, calls, resp>>

\* logout: revoke the row the presented token names; an invalid token is ignored
Logout(token) ==
    /\ sessions' = IF VerifyRefreshOk(token) /\ token.sid \in DOMAIN sessions
                   THEN RevokeSession(sessions, token.sid) ELSE sessions
    /\ resp' = Answer("logout", "ok", NULL, token, NULL)
    /\ UNCHANGED <<now, users, sidCtr, devices, loginCh, enrollCh, backupCodes, batchCtr,
                   resets, fpEnforceAll, inflight, emailVer, calls>>

\* requireAuth: the caller holds an access token or a refresh cookie of the user;
\* every one of them was handed out together with a session row
HasAuthenticated(userId) == {s \in DOMAIN sessions : sessions[s].user_id = userId} # {}

\* the revocation of the user's sessions left out
RevokeActiveUserSessionsLeftOut(ss, userId) == ss

\* UPDATE sessions SET revoked_at = NOW() WHERE user_id = ? AND revoked_at IS NULL
RevokeActiveUserSessions(ss, userId) ==
    [x \in DOMAIN ss |->
        IF ss[x].user_id = userId /\ ss[x].revoked_at = NULL
        THEN [ss[x] EXCEPT !.revoked_at = SET] ELSE ss[x]]

LogoutAll(userId) ==
    /\ HasAuthenticated(userId)
    /\ sessions' = RevokeActiveUserSessions(sessions, userId)
    /\ devices' = revokeAllTrustedDevices(devices, userId)
    /\ resp' = Answer("logoutAll", "ok", userId, NULL, NULL)
    /\ UNCHANGED <<now, users, sidCtr, loginCh, enrollCh, backupCodes, batchCtr, resets,
                   fpEnforceAll, inflight, emailVer, calls>>

(* --------------------------- MFA operations --------------------------- *)

\* INSERT INTO mfa_challenges (id, user_id, secret_enc, expires_at)
InsertEnrollChallenge(ec, userId, t) ==
    Append(ec, [user_id |-> userId,
                secret_enc |-> encryptToBlob(TotpSecret(Len(ec) + 1)),
                expires_at |-> t + MFA_CHALLENGE_TTL_SEC, consumed_at |-> NULL])

startMfaSetup(userId) ==
    /\ HasAuthenticated(userId)
    /\ \/ /\ users[userId].mfa_enabled
          /\ resp' = Answer("startMfaSetup", "MfaAlreadyEnabled", userId, NULL, NULL)
          /\ UNCHANGED enrollCh
       \/ /\ ~users[userId].mfa_enabled
          /\ Len(enrollCh) < MaxEnrollChallenges
          /\ enrollCh' = InsertEnrollChallenge(enrollCh, userId, now)
          /\ resp' = Answer("startMfaSetup", "ok", userId, NULL, Len(enrollCh) + 1)
    /\ UNCHANGED <<now, users, sessions, sidCtr, devices, loginCh, backupCodes, batchCtr,
                   resets, fpEnforceAll, inflight, emailVer, calls>>

\* the challenge read by id alone, without AND user_id = ?
verifyMfaSetupVerdictAnyUser(userId, challengeId, code) ==
    IF challengeId \notin DOMAIN enrollCh THEN "InvalidChallenge"
    ELSE IF enrollCh[challengeId].consumed_at # NULL THEN "InvalidChallenge"
    ELSE IF enrollCh[challengeId].expires_at < now THEN "ChallengeExpired"
    ELSE IF ~verifyTotp(code, decryptFromBlob(enrollCh[challengeId].secret_enc), now)
         THEN "InvalidCode"
    ELSE "ok"

verifyMfaSetupVerdict(userId, challengeId, code) ==
    IF challengeId \notin DOMAIN enrollCh THEN "InvalidChallenge"
    ELSE IF enrollCh[challengeId].user_id # userId THEN "InvalidChallenge"
    ELSE IF enrollCh[challengeId].consumed_at # NULL THEN "InvalidChallenge"
    ELSE IF enrollCh[challengeId].expires_at < now THEN "ChallengeExpired"
    ELSE IF ~verifyTotp(code, decryptFromBlob(enrollCh[challengeId].secret_enc), now)
         THEN "InvalidCode"
    ELSE "ok"

\* UPDATE users SET mfa_secret_enc = ?, mfa_enabled = 1 WHERE id = ?
EnableMfa(us, userId, secretEnc) ==
    [us EXCEPT ![userId].mfa_secret_enc = secretEnc, ![userId].mfa_enabled = TRUE]

\* UPDATE users SET mfa_enabled = 0, mfa_secret_enc = NULL WHERE id = ?
ClearMfa(us, userId) ==
    [us EXCEPT ![userId].mfa_secret_enc = NullBlob, ![userId].mfa_enabled = FALSE]

verifyMfaSetup(userId, challengeId, code) ==
    LET verdict == verifyMfaSetupVerdict(userId, challengeId, code) IN
    /\ HasAuthenticated(userId)
    /\ \/ /\ verdict = "ok"
          /\ batchCtr < MaxBatches
          /\ users' = EnableMfa(users, userId, enrollCh[challengeId].secret_enc)
          /\ enrollCh' = [enrollCh EXCEPT ![challengeId].consumed_at = SET]
          /\ batchCtr' = batchCtr + 1
          /\ backupCodes' = InsertBackupBatch(backupCodes, userId, batchCtr + 1)
          /\ devices' = revokeAllTrustedDevices(devices, userId)
          /\ resp' = Answer("verifyMfaSetup", "ok", userId, challengeId, batchCtr + 1)
       \/ /\ verdict # "ok"
          /\ resp' = Answer("verifyMfaSetup", verdict, userId, challengeId, NULL)
          /\ UNCHANGED <<users, enrollCh, batchCtr, backupCodes, devices>>
    /\ UNCHANGED <<now, sessions, sidCtr, loginCh, resets, fpEnforceAll, inflight, emailVer, calls>>

\* disableMfa's second factor: the backup-code rows matching the typed code, the
\* raw candidate first, then the hyphenated one
DisableCandidates(code) == <<backupHash(UpperTrim(code)), backupHash(Pretty(UpperTrim(code)))>>

DisableBackupRows(userId, code) ==
    LET c == DisableCandidates(code) IN
    IF UnusedBackupRows(backupCodes, userId, c[1]) # {}
    THEN UnusedBackupRows(backupCodes, userId, c[1])
    ELSE UnusedBackupRows(backupCodes, userId, c[2])

\* the password test left out: the second factor alone disables MFA
disableMfaVerdictNoPassword(userId, password, code) ==
    IF ~users[userId].mfa_enabled THEN "MfaNotEnabled"
    ELSE IF IsSixDigits(code) /\ users[userId].mfa_secret_enc = NullBlob THEN "MfaMisconfigured"
    ELSE IF IsSixDigits(code)
            /\ verifyTotp(code, decryptFromBlob(users[userId].mfa_secret_enc), now) THEN "ok"
    ELSE IF DisableBackupRows(userId, code) # {} THEN "ok"
    ELSE "InvalidCode"

disableMfaVerdict(userId, password, code) ==
    IF ~users[userId].mfa_enabled THEN "MfaNotEnabled"
    ELSE IF ~Argon2Verify(users[userId].password_hash, password) THEN "InvalidPassword"
    ELSE IF IsSixDigits(code) /\ users[userId].mfa_secret_enc = NullBlob THEN "MfaMisconfigured"
    ELSE IF IsSixDigits(code)
            /\ verifyTotp(code, decryptFromBlob(users[userId].mfa_secret_enc), now) THEN "ok"
    ELSE IF DisableBackupRows(userId, code) # {} THEN "ok"
    ELSE "InvalidCode"

\* what disableMfa writes once both factors are verified
DisableMfaWrites(userId) ==
    /\ users' = ClearMfa(users, userId)
    /\ backupCodes' = DeleteBackupCodes(backupCodes, userId)
    /\ devices' = revokeAllTrustedDevices(devices, userId)
    /\ UNCHANGED <<sessions, sidCtr>>

disableMfa(userId, password, code) ==
    LET verdict == disableMfaVerdict(userId, password, code) IN
    /\ HasAuthenticated(userId)
    /\ \/ /\ verdict = "ok"
          /\ DisableMfaWrites(userId)
          /\ resp' = Answer("disableMfa", "ok", userId, NULL, NULL)
       \/ /\ verdict # "ok"
          /\ resp' = Answer("disableMfa", verdict, userId, NULL, NULL)
          /\ UNCHANGED <<users, backupCodes, devices, sessions, sidCtr>>
    /\ UNCHANGED <<now, loginCh, enrollCh, batchCtr, resets, fpEnforceAll, inflight, emailVer,
                   calls>>

regenerateBackupCodes(userId) ==
    /\ HasAuthenticated(userId)
    /\ batchCtr < MaxBatches
    /\ batchCtr' = batchCtr + 1
    /\ backupCodes' = InsertBackupBatch(MarkAllBackupUsed(backupCodes, userId), userId,
                                        batchCtr + 1)
    /\ resp' = Answer("regenerateBackupCodes", "ok", userId, NULL, batchCtr + 1)
    /\ UNCHANGED <<now, users, sessions, sidCtr, devices, loginCh, enrollCh, resets,
                   fpEnforceAll, inflight, emailVer, calls>>

\* verifyMfaLogin's backup-code lookup: only the typed text, upper-cased and trimmed
LoginBackupRows(userId, code) ==
    UnusedBackupRows(backupCodes, userId, backupHash(UpperTrim(code)))

\* the consumed_at test left out of the challenge check
verifyMfaLoginVerdictIgnoresConsumed(challengeId, code) ==
    LET rec == loginCh[challengeId]
        u == users[rec.user_id] IN
    IF challengeId \notin DOMAIN loginCh THEN "InvalidChallenge"
    ELSE IF rec.expires_at < now THEN "ChallengeExpired"
    ELSE IF IsSixDigits(code) /\ u.mfa_secret_enc = NullBlob THEN "MfaMisconfigured"
    ELSE IF IsSixDigits(code) /\ verifyTotp(code, decryptFromBlob(u.mfa_secret_enc), now)
         THEN "ok"
    ELSE IF LoginBackupRows(rec.user_id, code) # {} THEN "ok"
    ELSE "InvalidCode"

verifyMfaLoginVerdict(challengeId, code) ==
    LET rec == loginCh[challengeId]
        u == users[rec.user_id] IN
    IF challengeId \notin DOMAIN loginCh THEN "InvalidChallenge"
    ELSE IF rec.consumed_at # NULL THEN "InvalidChallenge"
    ELSE IF rec.expires_at < now THEN "ChallengeExpired"
    ELSE IF IsSixDigits(code) /\ u.mfa_secret_enc = NullBlob THEN "MfaMisconfigured"
    ELSE IF IsSixDigits(code) /\ verifyTotp(code, decryptFromBlob(u.mfa_secret_enc), now)
         THEN "ok"
    ELSE IF LoginBackupRows(rec.user_id, code) # {} THEN "ok"
    ELSE "InvalidCode"

\* the backup-code write of a verification: none when the TOTP matched
ConsumeBackupCode(bc, userId, secretEnc, code, t) ==
    IF IsSixDigits(code) /\ verifyTotp(code, decryptFromBlob(secretEnc), t) THEN bc
    ELSE IF UnusedBackupRows(bc, userId, backupHash(UpperTrim(code))) = {} THEN bc
    ELSE MarkBackupUsed(bc, CHOOSE r \in UnusedBackupRows(bc, userId,
                                                          backupHash(UpperTrim(code))) : TRUE)

\* UPDATE mfa_login_challenges SET consumed_at = NOW() WHERE id = ?
ConsumeLoginChallenge(lc, challengeId) == [lc EXCEPT ![challengeId].consumed_at = SET]

\* the challenge consumed before the code is checked
verifyMfaLoginConsumesFirst(challengeId, code, rememberDevice, fp) ==
    LET verdict == verifyMfaLoginVerdict(challengeId, code)
        rec == loginCh[challengeId]
        userId == rec.user_id
    IN
    /\ \/ /\ verdict = "ok"
          /\ backupCodes' = ConsumeBackupCode(backupCodes, userId,
                                              users[userId].mfa_secret_enc, code, now)
          /\ loginCh' = ConsumeLoginChallenge(loginCh, challengeId)
          /\ IssueSession(userId, rec.remember)
          /\ IF rememberDevice
             THEN /\ Len(devices) < MaxDevices
                  /\ devices' = InsertDevice(devices, userId, fp, now)
             ELSE UNCHANGED devices
          /\ resp' = Answer("verifyMfaLogin", "ok", userId,
                            [cid |-> challengeId, code |-> code], sidCtr + 1)
       \/ /\ verdict \in {"InvalidCode", "MfaMisconfigured"}
          /\ loginCh' = ConsumeLoginChallenge(loginCh, challengeId)
          /\ resp' = Answer("verifyMfaLogin", verdict, userId,
                            [cid |-> challengeId, code |-> code], NULL)
          /\ UNCHANGED <<backupCodes, sessions, sidCtr, devices>>
       \/ /\ verdict \in {"InvalidChallenge", "ChallengeExpired"}
          /\ resp' = Answer("verifyMfaLogin", verdict, NULL, NULL, NULL)
          /\ UNCHANGED <<backupCodes, loginCh, sessions, sidCtr, devices>>
    /\ UNCHANGED <<now, users, enrollCh, batchCtr, resets, fpEnforceAll, inflight, emailVer, calls>>

\* the session created without the challenge's remember flag
verifyMfaLoginForgetsRemember(challengeId, code, rememberDevice, fp) ==
    LET verdict == verifyMfaLoginVerdict(challengeId, code)
        rec == loginCh[challengeId]
        userId == rec.user_id
    IN
    /\ \/ /\ verdict = "ok"
          /\ backupCodes' = ConsumeBackupCode(backupCodes, userId,
                                              users[userId].mfa_secret_enc, code, now)
          /\ loginCh' = ConsumeLoginChallenge(loginCh, challengeId)
          /\ IssueSession(userId, FALSE)
          /\ IF rememberDevice
             THEN /\ Len(devices) < MaxDevices
                  /\ devices' = InsertDevice(devices, userId, fp, now)
             ELSE UNCHANGED devices
          /\ resp' = Answer("verifyMfaLogin", "ok", userId,
                            [cid |-> challengeId, code |-> code], sidCtr + 1)
       \/ /\ verdict \in {"InvalidCode", "MfaMisconfigured"}
          /\ resp' = Answer("verifyMfaLogin", verdict, userId,
                            [cid |-> challengeId, code |-> code], NULL)
          /\ UNCHANGED <<backupCodes, loginCh, sessions, sidCtr, devices>>
       \/ /\ verdict \in {"InvalidChallenge", "ChallengeExpired"}
          /\ resp' = Answer("verifyMfaLogin", verdict, NULL, NULL, NULL)
          /\ UNCHANGED <<backupCodes, loginCh, sessions, sidCtr, devices>>
    /\ UNCHANGED <<now, users, enrollCh, batchCtr, resets, fpEnforceAll, inflight, emailVer, calls>>

\* the device trusted whether or not the caller asked for it
verifyMfaLoginAlwaysRemembers(challengeId, code, rememberDevice, fp) ==
    LET verdict == verifyMfaLoginVerdict(challengeId, code)
        rec == loginCh[challengeId]
        userId == rec.user_id
    IN
    /\ \/ /\ verdict = "ok"
          /\ backupCodes' = ConsumeBackupCode(backupCodes, userId,
                                              users[userId].mfa_secret_enc, code, now)
          /\ loginCh' = ConsumeLoginChallenge(loginCh, challengeId)
          /\ IssueSession(userId, rec.remember)
          /\ devices' = IF Len(devices) < MaxDevices
                        THEN InsertDevice(devices, userId, fp, now) ELSE devices
          /\ resp' = Answer("verifyMfaLogin", "ok", userId,
                            [cid |-> challengeId, code |-> code], sidCtr + 1)
       \/ /\ verdict \in {"InvalidCode", "MfaMisconfigured"}
          /\ resp' = Answer("verifyMfaLogin", verdict, userId,
                            [cid |-> challengeId, code |-> code], NULL)
          /\ UNCHANGED <<backupCodes, loginCh, sessions, sidCtr, devices>>
       \/ /\ verdict \in {"InvalidChallenge", "ChallengeExpired"}
          /\ resp' = Answer("verifyMfaLogin", verdict, NULL, NULL, NULL)
          /\ UNCHANGED <<backupCodes, loginCh, sessions, sidCtr, devices>>
    /\ UNCHANGED <<now, users, enrollCh, batchCtr, resets, fpEnforceAll, inflight, emailVer,
                   calls>>

verifyMfaLogin(challengeId, code, rememberDevice, fp) ==
    LET verdict == verifyMfaLoginVerdict(challengeId, code)
        rec == loginCh[challengeId]
        userId == rec.user_id
    IN
    /\ \/ /\ verdict = "ok"
          /\ backupCodes' = ConsumeBackupCode(backupCodes, userId,
                                              users[userId].mfa_secret_enc, code, now)
          /\ loginCh' = ConsumeLoginChallenge(loginCh, challengeId)
          /\ IssueSession(userId, rec.remember)
          /\ IF rememberDevice
             THEN /\ Len(devices) < MaxDevices
                  /\ devices' = InsertDevice(devices, userId, fp, now)
             ELSE UNCHANGED devices
          /\ resp' = Answer("verifyMfaLogin", "ok", userId,
                            [cid |-> challengeId, code |-> code], sidCtr + 1)
       \/ /\ verdict \in {"InvalidCode", "MfaMisconfigured"}
          /\ resp' = Answer("verifyMfaLogin", verdict, userId,
                            [cid |-> challengeId, code |-> code], NULL)
          /\ UNCHANGED <<backupCodes, loginCh, sessions, sidCtr, devices>>
       \/ /\ verdict \in {"InvalidChallenge", "ChallengeExpired"}
          /\ resp' = Answer("verifyMfaLogin", verdict, NULL, NULL, NULL)
          /\ UNCHANGED <<backupCodes, loginCh, sessions, sidCtr, devices>>
    /\ UNCHANGED <<now, users, enrollCh, batchCtr, resets, fpEnforceAll, inflight, emailVer, calls>>

(* ----------------------- trusted-device operations -------------------- *)

revokeTrustedDevice(userId, deviceId) ==
    LET found == /\ deviceId \in DOMAIN devices
                 /\ devices[deviceId].user_id = userId
                 /\ devices[deviceId].revoked_at = NULL
    IN
    /\ HasAuthenticated(userId)
    /\ devices' = IF found THEN RevokeDeviceById(devices, deviceId) ELSE devices
    /\ resp' = Answer("revokeTrustedDevice", IF found THEN "ok" ELSE "DeviceNotFound",
                      userId, deviceId, NULL)
    /\ UNCHANGED <<now, users, sessions, sidCtr, loginCh, enrollCh, backupCodes, batchCtr,
                   resets, fpEnforceAll, inflight, emailVer, calls>>

untrustCurrentDevice(userId, deviceId) ==
    /\ HasAuthenticated(userId)
    /\ devices' = RevokeDeviceOfUser(devices, deviceId, userId)
    /\ resp' = Answer("untrustCurrentDevice", "ok", userId, deviceId, NULL)
    /\ UNCHANGED <<now, users, sessions, sidCtr, loginCh, enrollCh, backupCodes, batchCtr,
                   resets, fpEnforceAll, inflight, emailVer, calls>>

\* POST /trusted-devices/revoke-all
RevokeAllDevices(userId) ==
    /\ HasAuthenticated(userId)
    /\ devices' = revokeAllTrustedDevices(devices, userId)
    /\ resp' = Answer("revokeAllTrustedDevices", "ok", userId, NULL, NULL)
    /\ UNCHANGED <<now, users, sessions, sidCtr, loginCh, enrollCh, backupCodes, batchCtr,
                   resets, fpEnforceAll, inflight, emailVer, calls>>

\* persistRuntimeFlag('trustedDeviceFpEnforceAll', value)
persistRuntimeFlag(value) ==
    /\ fpEnforceAll' = value
    /\ resp' = Answer("persistRuntimeFlag", "ok", NULL, NULL, NULL)
    /\ UNCHANGED <<now, dbVars, inflight, emailVer, calls>>

(* --------------------------- password operations ---------------------- *)

\* UPDATE users SET password_hash = ? WHERE id = ?
SetPassword(us, userId, newPassword) ==
    [us EXCEPT ![userId].password_hash = Argon2Hash(newPassword)]

\* changePassword's checks with the comparison against the current hash left out
changePasswordVerdictNoReuseTest(userId, oldPassword, newPassword) ==
    IF ~Argon2Verify(users[userId].password_hash, oldPassword) THEN "InvalidPassword"
    ELSE "ok"

changePasswordVerdict(userId, oldPassword, newPassword) ==
    IF ~Argon2Verify(users[userId].password_hash, oldPassword) THEN "InvalidPassword"
    ELSE IF Argon2Verify(users[userId].password_hash, newPassword) THEN "PasswordReuse"
    ELSE "ok"

changePassword(userId, oldPassword, newPassword) ==
    LET verdict == changePasswordVerdict(userId, oldPassword, newPassword) IN
    /\ HasAuthenticated(userId)
    /\ \/ /\ verdict = "ok"
          /\ users' = SetPassword(users, userId, newPassword)
          /\ sessions' = RevokeUserSessions(sessions, userId)
          /\ devices' = revokeAllTrustedDevices(devices, userId)
       \/ /\ verdict # "ok"
          /\ UNCHANGED <<users, sessions, devices>>
    /\ resp' = Answer("changePassword", verdict, userId,
                      [old |-> oldPassword, new |-> newPassword], NULL)
    /\ UNCHANGED <<now, sidCtr, loginCh, enrollCh, backupCodes, batchCtr, resets,
                   fpEnforceAll, inflight, emailVer, calls>>

\* randToken(32): the token mailed for password_resets row r
ResetToken(r) == [rand |-> r]

\* UPDATE password_resets SET used_at = NOW() WHERE user_id = ? AND used_at IS NULL
MarkResetsUsed(rs, userId) ==
    [r \in DOMAIN rs |->
        IF rs[r].user_id = userId /\ rs[r].used_at = NULL
        THEN [rs[r] EXCEPT !.used_at = SET] ELSE rs[r]]

\* INSERT INTO password_resets (user_id, token_hash, expires_at)
InsertReset(rs, userId, t) ==
    Append(rs, [user_id |-> userId, token_hash |-> Sha256(ResetToken(Len(rs) + 1)),
                expires_at |-> t + PASSWORD_RESET_TTL_MS, used_at |-> NULL])

requestPasswordReset(email) ==
    /\ \/ /\ email \in Users
          /\ Len(resets) < MaxResets
          /\ resets' = InsertReset(MarkResetsUsed(resets, email), email, now)
          /\ devices' = revokeAllTrustedDevices(devices, email)
       \/ /\ email \notin Users
          /\ UNCHANGED <<resets, devices>>
    /\ resp' = Answer("requestPasswordReset", "ok", NULL, email, NULL)
    /\ UNCHANGED <<now, users, sessions, sidCtr, loginCh, enrollCh, backupCodes, batchCtr,
                   fpEnforceAll, inflight, emailVer, calls>>

\* the SELECT without its test of expires_at
LiveResetRowsIgnoresExpiry(rs, token, t) ==
    {r \in DOMAIN rs : rs[r].token_hash = Sha256(token) /\ rs[r].used_at = NULL}

\* SELECT pr.id, pr.user_id FROM password_resets pr
\*  WHERE pr.token_hash = ? AND pr.used_at IS NULL AND pr.expires_at > NOW()
LiveResetRows(rs, token, t) ==
    {r \in DOMAIN rs : rs[r].token_hash = Sha256(token) /\ rs[r].used_at = NULL
                       /\ rs[r].expires_at > t}

resetPasswordVerdict(token, newPassword) ==
    LET rows == LiveResetRows(resets, token, now) IN
    IF rows = {} THEN "InvalidToken"
    ELSE IF Argon2Verify(users[resets[CHOOSE r \in rows : TRUE].user_id].password_hash,
                         newPassword) THEN "PasswordReuse"
    ELSE "ok"

\* UPDATE password_resets SET used_at = NOW() WHERE id = ?
MarkResetUsed(rs, r) == [rs EXCEPT ![r].used_at = SET]

resetPasswordWithToken(token, newPassword) ==
    LET verdict == resetPasswordVerdict(token, newPassword)
        rows == LiveResetRows(resets, token, now)
        r == CHOOSE x \in rows : TRUE
        userId == resets[r].user_id
    IN
    /\ \/ /\ verdict = "ok"
          /\ users' = SetPassword(users, userId, newPassword)
          /\ resets' = MarkResetUsed(resets, r)
          /\ sessions' = RevokeUserSessions(sessions, userId)
          /\ devices' = revokeAllTrustedDevices(devices, userId)
          /\ resp' = Answer("resetPasswordWithToken", verdict, userId,
                            [token |-> token, new |-> newPassword], NULL)
       \/ /\ verdict # "ok"
          /\ resp' = Answer("resetPasswordWithToken", verdict, NULL,
                            [token |-> token, new |-> newPassword], NULL)
          /\ UNCHANGED <<users, resets, sessions, devices>>
    /\ UNCHANGED <<now, sidCtr, loginCh, enrollCh, backupCodes, batchCtr, fpEnforceAll,
                   inflight, emailVer, calls>>

\* requestPasswordReset, one part at a time. The request r finds the user and marks the
\* user's outstanding tokens used (lines 513-531).
requestPasswordResetMark(r, email) ==
    /\ calls[r].pc = "idle"
    /\ \/ /\ email \in Users
          /\ resets' = MarkResetsUsed(resets, email)
          /\ calls' = [calls EXCEPT ![r] = [pc |-> "reset_insert", user |-> email]]
          /\ UNCHANGED resp
       \/ /\ email \notin Users
          /\ resp' = Answer("requestPasswordReset", "ok", NULL, email, NULL)
          /\ UNCHANGED <<resets, calls>>
    /\ UNCHANGED <<now, users, sessions, sidCtr, devices, loginCh, enrollCh, backupCodes,
                   batchCtr, fpEnforceAll, inflight, emailVer>>

\* the rest of the request: INSERT the new token, mail it, revoke the devices (533-549)
requestPasswordResetInsert(r) ==
    /\ calls[r].pc = "reset_insert"
    /\ Len(resets) < MaxResets
    /\ resets' = InsertReset(resets, calls[r].user, now)
    /\ devices' = revokeAllTrustedDevices(devices, calls[r].user)
    /\ calls' = [calls EXCEPT ![r] = NoCall]
    /\ resp' = Answer("requestPasswordReset", "ok", NULL, calls[r].user, NULL)
    /\ UNCHANGED <<now, users, sessions, sidCtr, loginCh, enrollCh, backupCodes, batchCtr,
                   fpEnforceAll, inflight, emailVer>>

(* -------------------------- e-mail verification ----------------------- *)

\* randToken(32): the token mailed for email_verifications row n
EmailToken(n) == [mail |-> n]

\* DELETE FROM email_verifications WHERE user_id = ?
DeleteVerifications(ev, userId) ==
    [ev EXCEPT !.rows = [n \in {x \in DOMAIN ev.rows : ev.rows[x].user_id # userId}
                            |-> ev.rows[n]]]

\* INSERT INTO email_verifications (user_id, token_hash, expires_at)
InsertVerification(ev, userId, t) ==
    LET id == ev.last + 1 IN
    [last |-> id,
     rows |-> [n \in DOMAIN ev.rows \cup {id} |->
                 IF n = id
                 THEN [user_id |-> userId, token_hash |-> Sha256(EmailToken(id)),
                       expires_at |-> t + EMAIL_VERIFY_TTL_MS, used_at |-> NULL]
                 ELSE ev.rows[n]]]

\* resendVerificationEmail up to its answer: for an unverified user the unawaited
\* sendNewVerificationEmail has issued its DELETE; the devices of an existing user are
\* revoked
resendVerificationEmail(r, email) ==
    /\ calls[r].pc = "idle"
    /\ IF email \in Users /\ users[email].email_verified_at = NULL
       THEN /\ emailVer' = DeleteVerifications(emailVer, email)
            /\ calls' = [calls EXCEPT ![r] = [pc |-> "verification_insert", user |-> email]]
       ELSE UNCHANGED <<emailVer, calls>>
    /\ devices' = IF email \in Users THEN revokeAllTrustedDevices(devices, email)
                  ELSE devices
    /\ resp' = Answer("resendVerificationEmail", "ok", NULL, email, NULL)
    /\ UNCHANGED <<now, users, sessions, sidCtr, loginCh, enrollCh, backupCodes, batchCtr,
                   resets, fpEnforceAll, inflight>>

\* sendNewVerificationEmail after its DELETE: the INSERT of the new token
sendNewVerificationEmailInsert(r) ==
    /\ calls[r].pc = "verification_insert"
    /\ emailVer.last < MaxVerifications
    /\ emailVer' = InsertVerification(emailVer, calls[r].user, now)
    /\ calls' = [calls EXCEPT ![r] = NoCall]
    /\ resp' = Answer("sendNewVerificationEmail", "ok", NULL, calls[r].user, emailVer.last + 1)
    /\ UNCHANGED <<now, users, sessions, sidCtr, devices, loginCh, enrollCh, backupCodes,
                   batchCtr, resets, fpEnforceAll, inflight>>

\* SELECT ev.id, ev.user_id FROM email_verifications ev
\*  WHERE ev.token_hash = ? AND ev.used_at IS NULL AND ev.expires_at > NOW()
LiveVerificationRows(ev, token, t) ==
    {n \in DOMAIN ev.rows : /\ ev.rows[n].token_hash = Sha256(token)
                            /\ ev.rows[n].used_at = NULL
                            /\ ev.rows[n].expires_at > t}

\* the UPDATE of used_at left out
MarkVerificationUsedLeftOut(ev, n) == ev

\* UPDATE email_verifications SET used_at = NOW() WHERE id = ?
MarkVerificationUsed(ev, n) == [ev EXCEPT !.rows[n].used_at = SET]

\* UPDATE users SET email_verified_at = NOW() WHERE id = ?
StampVerified(us, userId) == [us EXCEPT ![userId].email_verified_at = SET]

verifyEmailToken(token) ==
    LET rows == LiveVerificationRows(emailVer, token, now)
        n == CHOOSE x \in rows : TRUE
        userId == emailVer.rows[n].user_id
    IN
    /\ \/ /\ rows # {}
          /\ emailVer' = MarkVerificationUsed(emailVer, n)
          /\ users' = StampVerified(users, userId)
          /\ devices' = revokeAllTrustedDevices(devices, userId)
          /\ resp' = Answer("verifyEmailToken", "ok", userId, token, NULL)
       \/ /\ rows = {}
          /\ resp' = Answer("verifyEmailToken", "InvalidToken", NULL, token, NULL)
          /\ UNCHANGED <<emailVer, users, devices>>
    /\ UNCHANGED <<now, sessions, sidCtr, loginCh, enrollCh, backupCodes, batchCtr, resets,
                   fpEnforceAll, inflight, calls>>

\* the verification tokens a caller may present: any that was mailed, or one that never
\* was
EmailTokens == {EmailToken(n) : n \in 0..MaxVerifications}

\* the reset tokens a caller may present: any that was mailed, or one that never was
ResetTokens == {ResetToken(r) : r \in 0..MaxResets}

Tick ==
    /\ now < MaxTime
    /\ now' = now + 1
    /\ resp' = Answer("tick", "ok", NULL, NULL, NULL)
    /\ UNCHANGED <<dbVars, fpEnforceAll, inflight, emailVer, calls>>

(* ------------------------- the session ledger -------------------------- *)

NextLedger ==
    \/ Tick
    \/ \E e \in Emails, pw \in Passwords, rem \in BOOLEAN :
          Login(e, pw, rem, NoCookie, "fpA", FALSE)
    \/ \E tok \in RefreshTokens : Refresh(tok)
    \/ \E tok \in RefreshTokens : Logout(tok)
    \/ \E u \in Users : LogoutAll(u)

SpecLedger == Init /\ [][NextLedger]_vars

\* the rows that name s as their successor
Predecessors(ss, s) == {p \in DOMAIN ss : ss[p].replaced_by = s}

\* the rotation chain that ends in row s: s and every row it descends from
RECURSIVE Lineage(_, _)
Lineage(ss, s) == {s} \cup UNION {Lineage(ss, p) : p \in Predecessors(ss, s)}

\* the newest row of the chain row s belongs to
RECURSIVE ChainHead(_, _)
ChainHead(ss, s) == IF ss[s].replaced_by = NULL THEN s ELSE ChainHead(ss, ss[s].replaced_by)

\* the last request was a refresh that presented a server-signed token whose row a
\* rotation had already superseded
SupersededReplayed ==
    /\ resp.op = "refresh"
    /\ resp.code # "ok"
    /\ VerifyRefreshOk(resp.arg)
    /\ resp.arg.sid \in DOMAIN sessions
    /\ sessions[resp.arg.sid].replaced_by # NULL

\* C1: right after a successful rotation, the chain that ends in the new row has
\* exactly one non-revoked row, the new one; every earlier row of it is revoked and
\* its replaced_by is the id of its successor in the chain (the presented row's is the
\* new row), and no row has two predecessors.
C1_RotationLedger ==
    (resp.op = "refresh" /\ resp.code = "ok") =>
        LET chain == Lineage(sessions, resp.made) IN
        /\ {s \in chain : sessions[s].revoked_at = NULL} = {resp.made}
        /\ sessions[resp.made].replaced_by = NULL
        /\ sessions[resp.arg.sid].replaced_by = resp.made
        /\ \A s \in chain \ {resp.made} :
              /\ sessions[s].revoked_at # NULL
              /\ sessions[s].replaced_by \in chain
              /\ sessions[s].replaced_by > s
        /\ \A s \in chain : Cardinality(Predecessors(sessions, s)) <= 1
        /\ \A s \in chain : sessions[s].user_id = resp.user

\* C1 witness: the second rotation in a row has just succeeded (a chain of three rows)
C1_TwoRotationsDone ==
    /\ resp.op = "refresh"
    /\ resp.code = "ok"
    /\ Cardinality(Lineage(sessions, resp.made)) = 3

\* C2: a refresh that presents a token superseded by a rotation is rejected with
\* TokenReuse.
C2_SupersededIsTokenReuse == SupersededReplayed => resp.code = "TokenReuse"

\* C3: after a rotation T0 -> T1, a replay of T0 leaves the head of the chain revoked,
\* so that T1 fails as well.
C3_ReplayKillsLineage ==
    SupersededReplayed =>
        /\ sessions[ChainHead(sessions, resp.arg.sid)].revoked_at # NULL
        /\ RefreshVerdict(sessions,
                          SignRefresh(resp.arg.sub, ChainHead(sessions, resp.arg.sid)),
                          now) # "ok"

(* ---------------------- concurrent refresh requests -------------------- *)

NextRace ==
    \/ \E e \in Users, rem \in BOOLEAN : Login(e, "pwA", rem, NoCookie, "fpA", FALSE)
    \/ \E r \in Requests, tok \in IssuedTokens : RefreshRead(r, tok)
    \/ \E r \in Requests : RefreshRevoke(r)
    \/ \E r \in Requests : RefreshInsert(r)
    \/ \E r \in Requests : RefreshStops(r)

SpecRace == Init /\ [][NextRace]_vars

\* C4: of two refresh requests that presented the same token, at most one succeeds,
\* however their storage calls interleave; the token's row never gets two successors
\* that are both non-revoked.
C4_SingleWinner ==
    \A r1 \in Requests, r2 \in Requests :
        (/\ r1 # r2
         /\ inflight[r1].pc = "done" /\ inflight[r2].pc = "done"
         /\ inflight[r1].token = inflight[r2].token
         /\ inflight[r1].code = "ok")
        => /\ inflight[r2].code # "ok"
           /\ Cardinality({s \in DOMAIN sessions :
                              /\ sessions[s].revoked_at = NULL
                              /\ s \in {inflight[r1].newSid, inflight[r2].newSid}}) <= 1

(* ------------------------ MFA and trusted devices ---------------------- *)

\* the user whose requests these specifications follow
Actor == 1

\* This scenario follows a single enrollment; a second enrollment challenge and the
\* regeneration of backup codes are followed by SpecEnroll.

NextMfa ==
    \/ Tick
    \/ \E c \in Cookies, fp \in Fingerprints, f \in BOOLEAN :
          Login(Actor, "pwA", FALSE, c, fp, f)
    \/ (startMfaSetup(Actor) /\ Len(enrollCh') <= 1)
    \/ \E c \in 1..MaxEnrollChallenges, code \in TypedTotp(now) :
          verifyMfaSetup(Actor, c, code)
    \/ \E pw \in Passwords, code \in TypedCodes(now) : disableMfa(Actor, pw, code)
    \/ \E c \in 1..MaxLoginChallenges, code \in TypedCodes(now) :
          verifyMfaLogin(c, code, FALSE, "fpA")
    \/ \E c \in 1..MaxLoginChallenges, code \in TypedCodes(now) :
          verifyMfaLogin(c, code, TRUE, "fpA")
    \/ \E d \in 1..MaxDevices : revokeTrustedDevice(Actor, d)
    \/ \E d \in 1..MaxDevices : untrustCurrentDevice(Actor, d)
    \/ RevokeAllDevices(Actor)
    \/ \E v \in BOOLEAN : persistRuntimeFlag(v)

SpecMfa == Init /\ [][NextMfa]_vars

\* the trusted-device cookie is valid for the user: it names a row of the user that is
\* not revoked and not expired, carries the row's token, and comes from the row's
\* fingerprint where fingerprints are enforced (admins always, everyone under the flag)
TrustedCookieValid(cookie, userId, fp) ==
    /\ cookie.kind = "device"
    /\ cookie.id \in DOMAIN devices
    /\ devices[cookie.id].user_id = userId
    /\ devices[cookie.id].revoked_at = NULL
    /\ devices[cookie.id].expires_at > now
    /\ devices[cookie.id].token_hash = Sha256(cookie.token)
    /\ (users[userId].role = "admin" \/ fpEnforceAll)
          => devices[cookie.id].fingerprint = Sha256(fp)

\* the step is a login whose password was right, by a user with MFA enabled
MfaLoginStep ==
    /\ resp'.op = "login"
    /\ resp'.user # NULL
    /\ users[resp'.user].mfa_enabled

\* the step answered mfaRequired: no session row and no token, and exactly one new
\* pending challenge of the user, whose id is the one returned
ChallengedStep ==
    /\ resp'.code = "mfaRequired"
    /\ sessions' = sessions
    /\ sidCtr' = sidCtr
    /\ Len(loginCh') = Len(loginCh) + 1
    /\ SubSeq(loginCh', 1, Len(loginCh)) = loginCh
    /\ resp'.made = Len(loginCh')
    /\ loginCh'[resp'.made].user_id = resp'.user
    /\ loginCh'[resp'.made].consumed_at = NULL
    /\ loginCh'[resp'.made].expires_at = now + MFA_LOGIN_TTL_SEC

\* C5: a login with the right password by a user with MFA enabled, without a valid
\* trusted-device cookie or with the trusted-device validation throwing, creates no
\* session and no tokens; it creates exactly one login challenge and answers
\* mfaRequired with the id of that challenge.
C5_MfaGate ==
    [][(/\ MfaLoginStep
        /\ \/ resp'.arg.tdFault
           \/ ~TrustedCookieValid(resp'.arg.cookie, resp'.user, resp'.arg.fp))
       => ChallengedStep]_vars

\* C5 witness: the login of an MFA user whose trusted-device validation threw, or who
\* carried no cookie, was answered with a pending challenge
C5_Challenged ==
    /\ resp.op = "login"
    /\ resp.code = "mfaRequired"
    /\ users[resp.user].mfa_enabled
    /\ resp.arg.tdFault \/ resp.arg.cookie = NoCookie
    /\ loginCh[resp.made].consumed_at = NULL
    /\ sessions # << >>

\* C6: with a valid trusted-device cookie a login of an MFA user is answered with
\* tokens and a new session, and no challenge. Each of revokeTrustedDevice,
\* untrustCurrentDevice and revokeAllTrustedDevices leaves the devices it names revoked,
\* a revoked device stays revoked, and a login whose cookie names a revoked device is
\* answered with an MFA challenge.
C6_TrustedBypass ==
    [][/\ (/\ MfaLoginStep
           /\ ~resp'.arg.tdFault
           /\ TrustedCookieValid(resp'.arg.cookie, resp'.user, resp'.arg.fp))
          => /\ resp'.code = "tokens"
             /\ loginCh' = loginCh
             /\ sidCtr' = sidCtr + 1
             /\ resp'.made = sidCtr'
             /\ sessions'[resp'.made].user_id = resp'.user
             /\ sessions'[resp'.made].revoked_at = NULL
       /\ (resp'.op = "revokeTrustedDevice" /\ resp'.code = "ok")
          => devices'[resp'.arg].revoked_at # NULL
       /\ (/\ resp'.op = "untrustCurrentDevice"
           /\ resp'.arg \in DOMAIN devices
           /\ devices[resp'.arg].user_id = resp'.user)
          => devices'[resp'.arg].revoked_at # NULL
       /\ resp'.op = "revokeAllTrustedDevices"
          => \A d \in DOMAIN devices' :
                devices'[d].user_id = resp'.user => devices'[d].revoked_at # NULL
       /\ \A d \in DOMAIN devices :
             devices[d].revoked_at # NULL
             => d \in DOMAIN devices' /\ devices'[d].revoked_at # NULL
       /\ (/\ MfaLoginStep
           /\ resp'.arg.cookie.kind = "device"
           /\ resp'.arg.cookie.id \in DOMAIN devices
           /\ devices[resp'.arg.cookie.id].revoked_at # NULL)
          => ChallengedStep]_vars

\* C6 witness: a login carried the cookie of the user's own unexpired device, with the
\* right token and fingerprint, after the device was revoked, and was challenged
C6_RevokedThenChallenged ==
    /\ resp.op = "login"
    /\ resp.code = "mfaRequired"
    /\ ~resp.arg.tdFault
    /\ resp.arg.cookie.kind = "device"
    /\ resp.arg.cookie.id \in DOMAIN devices
    /\ LET d == devices[resp.arg.cookie.id] IN
          /\ d.user_id = resp.user
          /\ d.revoked_at # NULL
          /\ d.expires_at > now
          /\ d.token_hash = Sha256(resp.arg.cookie.token)
          /\ d.fingerprint = Sha256(resp.arg.fp)

\* the backup-code rows of the user that the typed text names, raw or hyphenated
RowsOfTypedCode(bc, userId, code) ==
    {r \in DOMAIN bc :
        /\ bc[r].user_id = userId
        /\ bc[r].code_hash \in {backupHash(UpperTrim(code)),
                                backupHash(Pretty(UpperTrim(code)))}}

\* the step is a verifyMfaLogin on a pending challenge with a typed backup code
BackupVerifyStep ==
    /\ resp'.op = "verifyMfaLogin"
    /\ resp'.user # NULL
    /\ resp'.arg.code.kind = "text"

\* C7: a verifyMfaLogin that accepts a backup code marks exactly that code's row used;
\* a used row is never unused again; and a verifyMfaLogin on a pending challenge of the
\* user with a code whose row is used answers InvalidCode, creates no session and leaves
\* the challenge unconsumed.
C7_BackupCodeOnce ==
    [][/\ (BackupVerifyStep /\ resp'.code = "ok")
          => \E r \in DOMAIN backupCodes :
                /\ backupCodes[r].user_id = resp'.user
                /\ backupCodes[r].code_hash = backupHash(UpperTrim(resp'.arg.code))
                /\ backupCodes[r].used_at = NULL
                /\ backupCodes' = [backupCodes EXCEPT ![r].used_at = SET]
       /\ \A r \in DOMAIN backupCodes :
             (backupCodes[r].used_at # NULL /\ r \in DOMAIN backupCodes')
             => backupCodes'[r].used_at # NULL
       /\ (/\ BackupVerifyStep
           /\ \E r \in RowsOfTypedCode(backupCodes, resp'.user, resp'.arg.code) :
                 backupCodes[r].used_at # NULL)
          => /\ resp'.code = "InvalidCode"
             /\ sessions' = sessions
             /\ sidCtr' = sidCtr
             /\ loginCh' = loginCh
             /\ loginCh[resp'.arg.cid].consumed_at = NULL
             /\ backupCodes' = backupCodes
             /\ devices' = devices]_vars

\* C7 witness: a backup code whose row is used was typed again on a pending challenge
\* and was answered InvalidCode
C7_UsedCodeRefused ==
    /\ resp.op = "verifyMfaLogin"
    /\ resp.code = "InvalidCode"
    /\ resp.arg.code.kind = "text"
    /\ loginCh[resp.arg.cid].consumed_at = NULL
    /\ \E r \in DOMAIN backupCodes :
          /\ backupCodes[r].user_id = resp.user
          /\ backupCodes[r].code_hash = backupHash(UpperTrim(resp.arg.code))
          /\ backupCodes[r].used_at # NULL

\* C8: after a successful disableMfa the user has no non-revoked session and no
\* non-revoked trusted device.
C8_DisableMfaCascade ==
    (resp.op = "disableMfa" /\ resp.code = "ok") =>
        /\ \A s \in DOMAIN sessions :
              sessions[s].user_id = resp.user => sessions[s].revoked_at # NULL
        /\ \A d \in DOMAIN devices :
              devices[d].user_id = resp.user => devices[d].revoked_at # NULL

(* ------------------------------ passwords ------------------------------ *)

\* the clock stands still here: time only ever turns a session, a challenge or a reset
\* token from usable to expired
NextPassword ==
    \/ \E pw \in Passwords : Login(Actor, pw, FALSE, NoCookie, "fpA", FALSE)
    \/ \E tok \in IssuedTokens : Refresh(tok)
    \/ (startMfaSetup(Actor) /\ Len(enrollCh') <= 1)
    \/ \E c \in 1..MaxEnrollChallenges : verifyMfaSetup(Actor, c, Totp(TotpSecret(c), now))
    \/ \E c \in 1..MaxLoginChallenges, s \in 1..MaxEnrollChallenges :
          verifyMfaLogin(c, Totp(TotpSecret(s), now), TRUE, "fpA")
    \/ \E old \in Passwords, new \in Passwords : changePassword(Actor, old, new)
    \/ \E e \in {Actor, NoSuchEmail} : requestPasswordReset(e)
    \/ \E tok \in ResetTokens, pw \in Passwords : resetPasswordWithToken(tok, pw)

SpecPassword == Init /\ [][NextPassword]_vars

C10_PasswordReuse ==
    [][/\ (/\ resp'.op = "changePassword"
           /\ Argon2Verify(users[resp'.user].password_hash, resp'.arg.old)
           /\ Argon2Verify(users[resp'.user].password_hash, resp'.arg.new))
          => (resp'.code = "PasswordReuse" /\ UNCHANGED dbVars)
       /\ (/\ resp'.op = "resetPasswordWithToken"
           /\ \E r \in LiveResetRows(resets, resp'.arg.token, now) :
                 Argon2Verify(users[resets[r].user_id].password_hash, resp'.arg.new))
          => /\ resp'.code = "PasswordReuse"
             /\ UNCHANGED dbVars
             /\ LiveResetRows(resets', resp'.arg.token, now') # {}]_vars

\* C10 witness: a reset with a live token and the current password was answered
\* PasswordReuse, and the token is still unused
C10_ReuseRefused ==
    /\ resp.op = "resetPasswordWithToken"
    /\ resp.code = "PasswordReuse"
    /\ LiveResetRows(resets, resp.arg.token, now) # {}
    /\ sessions # << >>

(* -------------------- login challenges: retry and single use ---------- *)

\* the login challenge exists, is not consumed and is not expired
PendingChallenge(c) ==
    /\ c \in DOMAIN loginCh
    /\ loginCh[c].consumed_at = NULL
    /\ loginCh[c].expires_at >= now

\* the typed code is the current 6-digit code of the user's stored secret
MatchesCurrentTotp(userId, code) ==
    /\ IsSixDigits(code)
    /\ users[userId].mfa_secret_enc # NullBlob
    /\ code = Totp(decryptFromBlob(users[userId].mfa_secret_enc), now)

\* the typed code is the raw or the hyphenated form of an unused backup code of the user
MatchesUnusedBackup(userId, code) ==
    \E r \in RowsOfTypedCode(backupCodes, userId, code) : backupCodes[r].used_at = NULL

\* the codes that are correct for the user now: the current code of the stored secret
\* and every unused backup code as it was shown
CorrectCodes(userId) ==
    (IF users[userId].mfa_secret_enc = NullBlob THEN {}
     ELSE {Totp(decryptFromBlob(users[userId].mfa_secret_enc), now)})
    \cup {GeneratedCode(p[1], p[2]) :
              p \in {q \in (1..batchCtr) \X (1..BACKUP_CODE_COUNT) :
                        /\ BackupRowId(q[1], q[2]) \in DOMAIN backupCodes
                        /\ backupCodes[BackupRowId(q[1], q[2])].user_id = userId
                        /\ backupCodes[BackupRowId(q[1], q[2])].used_at = NULL}}

\* the answers a refused code may get: InvalidCode, and MfaMisconfigured for a 6-digit
\* code of a user without a stored secret
RefusedAnswers(userId, code, withMisconfigured) ==
    IF withMisconfigured /\ IsSixDigits(code) /\ users[userId].mfa_secret_enc = NullBlob
    THEN {"MfaMisconfigured"}
    ELSE {"InvalidCode"}

\* the challenge of the last answer is pending and every code that is correct for its
\* user is accepted on it
RetryOpen ==
    /\ PendingChallenge(resp.arg.cid)
    /\ \A good \in CorrectCodes(resp.user) :
          verifyMfaLoginVerdict(resp.arg.cid, good) = "ok"

\* a refused verifyMfaLogin creates no session, consumes nothing and leaves the challenge
\* pending, and every code that is correct afterwards is accepted on that challenge
RefusedStepKeepsChallenge(answers) ==
    (resp'.op = "verifyMfaLogin" /\ resp'.code \in answers)
    => /\ sessions' = sessions
       /\ sidCtr' = sidCtr
       /\ loginCh' = loginCh
       /\ backupCodes' = backupCodes
       /\ devices' = devices
       /\ RetryOpen'

NextVerify ==
    \/ Tick
    \/ \E rem \in BOOLEAN : Login(Actor, "pwA", rem, NoCookie, "fpA", FALSE)
    \/ (startMfaSetup(Actor) /\ Len(enrollCh') <= 1)
    \/ \E c \in 1..MaxEnrollChallenges : verifyMfaSetup(Actor, c, Totp(TotpSecret(c), now))
    \/ \E c \in 1..MaxLoginChallenges, code \in TypedCodes(now), rd \in BOOLEAN :
          verifyMfaLogin(c, code, rd, "fpA")

SpecVerify == Init /\ [][NextVerify]_vars

\* C12: verifyMfaLogin on a pending challenge accepts every correct code, and an
\* accepted verifyMfaLogin consumes that challenge and inserts exactly one new session
\* row, of the challenge's user, whose remember flag is the one the login stored in the
\* challenge and whose expiry is now + ttlForRole(role, that flag); no other session row
\* and no other challenge changes.
C12_ChallengeToSession ==
    /\ [](\A c \in DOMAIN loginCh :
            PendingChallenge(c)
            => \A good \in CorrectCodes(loginCh[c].user_id) :
                  verifyMfaLoginVerdict(c, good) = "ok")
    /\ [][(resp'.op = "verifyMfaLogin" /\ resp'.code = "ok")
          => LET c == resp'.arg.cid
                 new == DOMAIN sessions' \ DOMAIN sessions
             IN  /\ PendingChallenge(c)
                 /\ loginCh' = [loginCh EXCEPT ![c].consumed_at = SET]
                 /\ loginCh'[c].consumed_at # NULL
                 /\ Cardinality(new) = 1
                 /\ \A s \in DOMAIN sessions : sessions'[s] = sessions[s]
                 /\ \A s \in new :
                       /\ sessions'[s].user_id = loginCh[c].user_id
                       /\ sessions'[s].remember = loginCh[c].remember
                       /\ sessions'[s].expires_at
                             = now + ttlForRole(users[loginCh[c].user_id].role,
                                                loginCh[c].remember)
                       /\ sessions'[s].revoked_at = NULL]_vars

\* C12 witness: a challenge of a remembered login of a plain user was verified, and the
\* session it created is a remembered one with the long lifetime
C12_RememberedSessionMade ==
    /\ resp.op = "verifyMfaLogin"
    /\ resp.code = "ok"
    /\ loginCh[resp.arg.cid].remember
    /\ loginCh[resp.arg.cid].consumed_at # NULL
    /\ users[resp.user].role = "user"
    /\ sessions[resp.made].remember
    /\ sessions[resp.made].expires_at = now + USER_REFRESH_TOKEN_TTL_SEC

\* C13: a login challenge is consumed only by an accepted verifyMfaLogin on it and stays
\* consumed; on a consumed challenge every code, the correct ones included, gets the
\* verdict InvalidChallenge; and a verifyMfaLogin answered InvalidChallenge creates no
\* session and changes no table.
C13_ChallengeSingleUse ==
    /\ [](\A c \in DOMAIN loginCh :
            loginCh[c].consumed_at # NULL
            => \A code \in TypedCodes(now) \cup CorrectCodes(loginCh[c].user_id) :
                  verifyMfaLoginVerdict(c, code) = "InvalidChallenge")
    /\ [][/\ \A c \in DOMAIN loginCh :
               /\ c \in DOMAIN loginCh'
               /\ loginCh[c].consumed_at # NULL => loginCh'[c].consumed_at # NULL
               /\ (loginCh[c].consumed_at = NULL /\ loginCh'[c].consumed_at # NULL)
                  => (resp'.op = "verifyMfaLogin" /\ resp'.code = "ok"
                      /\ resp'.arg.cid = c)
          /\ (resp'.op = "verifyMfaLogin" /\ resp'.code = "InvalidChallenge")
             => /\ sessions' = sessions
                /\ sidCtr' = sidCtr
                /\ loginCh' = loginCh
                /\ backupCodes' = backupCodes
                /\ devices' = devices]_vars

\* C13 witness: every challenge id has been verified once, and a further verifyMfaLogin
\* was answered InvalidChallenge
C13_ConsumedRefused ==
    /\ Len(loginCh) = MaxLoginChallenges
    /\ \A c \in DOMAIN loginCh : loginCh[c].consumed_at # NULL
    /\ resp.op = "verifyMfaLogin"
    /\ resp.code = "InvalidChallenge"

(* ------------------- refresh on a dead session row -------------------- *)

\* the row a verified token names is absent, revoked, or expired
DeadRow(token) ==
    \/ token.sid \notin DOMAIN sessions
    \/ sessions[token.sid].user_id # token.sub
    \/ sessions[token.sid].revoked_at # NULL
    \/ sessions[token.sid].expires_at < now

\* C14: a refresh with a verified token whose session row is absent, has revoked_at
\* set, or has expires_at in the past is answered InvalidSession and changes no session
\* row: nothing is revoked and nothing is inserted.
C14_DeadRowFailsClosed ==
    [][(/\ resp'.op = "refresh"
        /\ VerifyRefreshOk(resp'.arg)
        /\ DeadRow(resp'.arg))
       => /\ resp'.code = "InvalidSession"
          /\ sessions' = sessions
          /\ sidCtr' = sidCtr]_vars

\* C14 witness: a refresh with the token of a row that is not revoked but has expired
\* was answered InvalidSession
C14_ExpiredRefused ==
    /\ resp.op = "refresh"
    /\ resp.code = "InvalidSession"
    /\ resp.arg.sid \in DOMAIN sessions
    /\ sessions[resp.arg.sid].revoked_at = NULL
    /\ sessions[resp.arg.sid].expires_at < now

(* ------------- accounts that are disabled or not yet verified --------- *)

\* The accounts as registration and administration leave them: users.status is 'active'
\* or 'disabled', and email_verified_at is NULL until the e-mail is verified.
InitAccounts ==
    /\ now = 0
    /\ \E st \in [Users -> {"active", "disabled"}], ev \in [Users -> {NULL, SET}] :
          users = [u \in Users |->
                     [password_hash |-> Argon2Hash("pwA"),
                      role |-> IF u = 1 THEN "user" ELSE "admin",
                      status |-> st[u],
                      mfa_enabled |-> FALSE,
                      mfa_secret_enc |-> NullBlob,
                      email_verified_at |-> ev[u]]]
    /\ sessions = << >>
    /\ sidCtr = 0
    /\ devices = << >>
    /\ loginCh = << >>
    /\ enrollCh = << >>
    /\ backupCodes = << >>
    /\ batchCtr = 0
    /\ resets = << >>
    /\ fpEnforceAll = FALSE
    /\ inflight = [r \in Requests |-> Idle]
    /\ emailVer = NoVerifications
    /\ calls = [r \in Requests |-> NoCall]
    /\ resp = Answer("boot", "ok", NULL, NULL, NULL)

\* a login request with the given e-mail and password
LoginRequest(email, password) ==
    \E rem \in BOOLEAN : Login(email, password, rem, NoCookie, "fpA", FALSE)

NextAccounts ==
    \/ \E e \in Emails, pw \in Passwords : LoginRequest(e, pw)
    \/ (startMfaSetup(Actor) /\ Len(enrollCh') <= 1)
    \/ \E c \in 1..MaxEnrollChallenges : verifyMfaSetup(Actor, c, Totp(TotpSecret(c), now))

SpecAccounts == InitAccounts /\ [][NextAccounts]_vars

\* the step created no session and no login challenge
NoSessionNoChallenge ==
    /\ sessions' = sessions
    /\ sidCtr' = sidCtr
    /\ loginCh' = loginCh

\* C15: a login with the correct password for an account whose status is disabled is
\* rejected with an error that is not the generic InvalidCredentials, and a login with
\* the correct password for an active account whose e-mail is not verified is rejected
\* with another error of its own; neither creates a session or a challenge.
C15_DistinctRejections ==
    [][\A e \in Users, pw \in Passwords :
          (LoginRequest(e, pw) /\ Argon2Verify(users[e].password_hash, pw))
          => /\ users[e].status = "disabled"
                => /\ resp'.code \notin {"InvalidCredentials", "EmailNotVerified",
                                          "tokens", "mfaRequired"}
                   /\ NoSessionNoChallenge
             /\ (users[e].status = "active" /\ users[e].email_verified_at = NULL)
                => /\ resp'.code = "EmailNotVerified"
                   /\ NoSessionNoChallenge]_vars

\* C16: a login with an e-mail of no user and a login with a wrong password for an
\* existing user get the same answer, InvalidCredentials with nothing else in it, and
\* create no session and no challenge; so a caller without the correct password never
\* gets EmailNotVerified or an MFA challenge.
C16_NoExistenceOracle ==
    [][\A e \in Emails, pw \in Passwords :
          (/\ LoginRequest(e, pw)
           /\ e \in Users => ~Argon2Verify(users[e].password_hash, pw))
          => /\ resp' = Answer("login", "InvalidCredentials", NULL, NULL, NULL)
             /\ NoSessionNoChallenge
             /\ devices' = devices]_vars

\* C16 witness: a login was answered InvalidCredentials while no account is disabled,
\* one account has MFA enabled and the other has an unverified e-mail: the refused
\* request named no user or carried a wrong password
C16_RefusedWithoutOracle ==
    /\ resp.op = "login"
    /\ resp.code = "InvalidCredentials"
    /\ \A u \in Users : users[u].status = "active"
    /\ users[Actor].mfa_enabled
    /\ \E u \in Users : users[u].email_verified_at = NULL

(* ---------------- backup codes typed in either form ------------------- *)

\* C17: a verifyMfaLogin on a pending challenge with an unused backup code of the user,
\* typed in its raw form or in its hyphenated form, is accepted: the typed code is
\* matched in both encodings, as disableMfa matches it.
C17_BackupCodeEitherForm ==
    [][(/\ resp'.op = "verifyMfaLogin"
        /\ resp'.code \in {"ok", "InvalidCode", "MfaMisconfigured"}
        /\ resp'.arg.code.kind = "text"
        /\ DisableBackupRows(resp'.user, resp'.arg.code) # {})
       => resp'.code = "ok"]_vars

(* ------------- enrollment, regeneration and disabling of MFA ---------- *)

\* The user enrolls, possibly from two enrollment challenges, regenerates backup codes,
\* disables MFA and answers login challenges, all within the lifetime of the challenges.
NextEnroll ==
    \/ Login(Actor, "pwA", FALSE, NoCookie, "fpA", FALSE)
    \/ startMfaSetup(Actor)
    \/ \E c \in 1..MaxEnrollChallenges, code \in TypedTotp(now) :
          verifyMfaSetup(Actor, c, code)
    \/ regenerateBackupCodes(Actor)
    \/ \E pw \in Passwords, code \in TypedCodes(now) : disableMfa(Actor, pw, code)
    \/ \E c \in 1..MaxLoginChallenges, code \in TypedCodes(now), rd \in BOOLEAN :
          verifyMfaLogin(c, code, rd, "fpA")

SpecEnroll == Init /\ [][NextEnroll]_vars

\* the unused backup-code rows of the user
UnusedCodesOf(bc, userId) ==
    {r \in DOMAIN bc : bc[r].user_id = userId /\ bc[r].used_at = NULL}

\* the step minted a batch of backup codes
MintStep ==
    /\ resp'.op \in {"verifyMfaSetup", "regenerateBackupCodes"}
    /\ resp'.code = "ok"

\* C18: in every reachable state a user has at most ten unused backup codes; and a step
\* that mints a batch (verifyMfaSetup or regenerateBackupCodes) leaves the user with
\* exactly ten unused codes, all of the new batch, every code that was unused before
\* being used or gone afterwards.
C18_MintInvalidatesPrior ==
    /\ [](\A u \in Users : Cardinality(UnusedCodesOf(backupCodes, u)) <= BACKUP_CODE_COUNT)
    /\ [][MintStep
          => /\ Cardinality(UnusedCodesOf(backupCodes', resp'.user)) = BACKUP_CODE_COUNT
             /\ UnusedCodesOf(backupCodes', resp'.user)
                   = {BackupRowId(resp'.made, k) : k \in 1..BACKUP_CODE_COUNT}
             /\ UnusedCodesOf(backupCodes, resp'.user)
                   \cap UnusedCodesOf(backupCodes', resp'.user) = {}]_vars

BothFactors(userId, password, code) ==
    /\ Argon2Verify(users[userId].password_hash, password)
    /\ \/ MatchesCurrentTotp(userId, code)
       \/ MatchesUnusedBackup(userId, code)

\* C20: a disableMfa call succeeds only when the password and a second factor (the
\* current TOTP code or an unused backup code) are both verified in that call; a call
\* in which either fails, and every call that does not succeed, leaves mfa_enabled, the
\* stored secret, the backup codes and the trusted devices unchanged; a call that
\* succeeds clears mfa_enabled and the secret and deletes all backup codes of the user.
C20_DisableNeedsBothFactors ==
    [][\A pw \in Passwords, code \in TypedCodes(now) :
          disableMfa(Actor, pw, code)
          => /\ resp'.code = "ok" => BothFactors(Actor, pw, code)
             /\ resp'.code # "ok"
                => /\ users' = users
                   /\ backupCodes' = backupCodes
                   /\ devices' = devices
             /\ resp'.code = "ok"
                => /\ users[Actor].mfa_enabled
                   /\ ~users'[Actor].mfa_enabled
                   /\ users'[Actor].mfa_secret_enc = NullBlob
                   /\ \A r \in DOMAIN backupCodes' : backupCodes'[r].user_id # Actor]_vars

\* C20 witness: a disableMfa call succeeded for a user who had backup codes; MFA is off,
\* the secret is cleared and the user has no backup-code row
C20_Disabled ==
    /\ resp.op = "disableMfa"
    /\ resp.code = "ok"
    /\ resp.user = Actor
    /\ batchCtr >= 1
    /\ ~users[Actor].mfa_enabled
    /\ users[Actor].mfa_secret_enc = NullBlob
    /\ \A r \in DOMAIN backupCodes : backupCodes[r].user_id # Actor

(* ------------------- validation of the trust cookie ------------------- *)

Roles == {"user", "admin"}

\* C21: for an id.token cookie, validateTrustedCookie answers true exactly when the
\* device row exists, belongs to the given user, is not revoked, is not expired, stores
\* the hash of the presented token and, for role admin or under the
\* trustedDeviceFpEnforceAll flag, stores the fingerprint of the current request; for
\* role user with the flag off the fingerprint plays no part.
C21_ValidationConditions ==
    \A cookie \in Cookies \ {NoCookie}, u \in Users, role \in Roles, fp \in Fingerprints :
        validateTrustedCookie(devices, cookie, u, role, fp, now, fpEnforceAll)
        <=> /\ cookie.id \in DOMAIN devices
            /\ devices[cookie.id].user_id = u
            /\ devices[cookie.id].revoked_at = NULL
            /\ devices[cookie.id].expires_at > now
            /\ devices[cookie.id].token_hash = Sha256(cookie.token)
            /\ (role = "admin" \/ fpEnforceAll)
                  => devices[cookie.id].fingerprint = Sha256(fp)

\* C21 witness: with the flag off, a login of a plain user with MFA enabled carried the
\* cookie of a live device from another fingerprint and was answered with tokens, while
\* the same cookie is refused for role admin
C21_MismatchPassesForUser ==
    /\ resp.op = "login"
    /\ resp.code = "tokens"
    /\ users[resp.user].mfa_enabled
    /\ users[resp.user].role = "user"
    /\ ~fpEnforceAll
    /\ resp.arg.cookie.kind = "device"
    /\ resp.arg.cookie.id \in DOMAIN devices
    /\ devices[resp.arg.cookie.id].fingerprint # Sha256(resp.arg.fp)
    /\ validateTrustedCookie(devices, resp.arg.cookie, resp.user, "user", resp.arg.fp,
                             now, fpEnforceAll)
    /\ ~validateTrustedCookie(devices, resp.arg.cookie, resp.user, "admin", resp.arg.fp,
                              now, fpEnforceAll)

(* ---------------------- the legacy trust cookie ----------------------- *)

\* the legacy cookies a request may carry: signed for either user, expired or not, and
\* forged ones
LegacyCookies ==
    {LegacyCookie(u, e, g) : u \in Users, e \in {0, MaxTime + 1}, g \in BOOLEAN}

\* The user enrolls and logs in with a legacy cookie, a cookie without a dot, or none.
NextLegacy ==
    \/ Tick
    \/ \E c \in LegacyCookies \cup {NoCookie, OpaqueCookie} :
          Login(Actor, "pwA", FALSE, c, "fpA", FALSE)
    \/ (startMfaSetup(Actor) /\ Len(enrollCh') <= 1)
    \/ \E c \in 1..MaxEnrollChallenges : verifyMfaSetup(Actor, c, Totp(TotpSecret(c), now))

SpecLegacy == Init /\ [][NextLegacy]_vars

\* C22: validateTrustedCookie answers true for a legacy cookie body.signature whose
\* signature is valid, whose sub is the user and whose exp is in the future, without any
\* device row; a login of an MFA user carrying it is answered with tokens.
C22_LegacyCookieAccepted ==
    /\ [](\A c \in LegacyCookies, u \in Users, role \in Roles :
            (c.sig = TrustedHmac(c.body) /\ c.body.sub = u /\ c.body.exp > now)
            => validateTrustedCookie(devices, c, u, role, "fpA", now, fpEnforceAll))
    /\ [][(/\ MfaLoginStep
            /\ resp'.arg.cookie.kind = "legacy"
            /\ resp'.arg.cookie.sig = TrustedHmac(resp'.arg.cookie.body)
            /\ resp'.arg.cookie.body.sub = resp'.user
            /\ resp'.arg.cookie.body.exp > now)
           => resp'.code = "tokens"]_vars

(* --------------------------- logout everywhere ------------------------ *)

\* The user logs in, enrolls, trusts devices, rotates refresh tokens and logs out
\* everywhere.
NextLogoutAll ==
    \/ Tick
    \/ \E c \in Cookies : Login(Actor, "pwA", FALSE, c, "fpA", FALSE)
    \/ (startMfaSetup(Actor) /\ Len(enrollCh') <= 1)
    \/ \E c \in 1..MaxEnrollChallenges : verifyMfaSetup(Actor, c, Totp(TotpSecret(c), now))
    \/ \E c \in 1..MaxLoginChallenges, rd \in BOOLEAN :
          verifyMfaLogin(c, Totp(TotpSecret(1), now), rd, "fpA")
    \/ \E tok \in IssuedTokens : Refresh(tok)
    \/ LogoutAll(Actor)

SpecLogoutAll == Init /\ [][NextLogoutAll]_vars

\* the user of the last answer has no session and no trusted device that is not revoked,
\* none of the user's refresh tokens passes refresh's checks, and no trust cookie is
\* valid for the user from any fingerprint
LoggedOutEverywhere ==
    /\ \A s \in DOMAIN sessions :
          sessions[s].user_id = resp.user
          => /\ sessions[s].revoked_at # NULL
             /\ RefreshVerdict(sessions, SignRefresh(resp.user, s), now) = "InvalidSession"
    /\ \A d \in DOMAIN devices :
          devices[d].user_id = resp.user => devices[d].revoked_at # NULL
    /\ \A c \in Cookies, fp \in Fingerprints :
          ~validateTrustedCookie(devices, c, resp.user, users[resp.user].role, fp, now,
                                 fpEnforceAll)

InitTokens ==
    /\ now = 0
    /\ users = [u \in Users |->
                  [password_hash |-> Argon2Hash("pwA"),
                   role |-> IF u = 1 THEN "user" ELSE "admin",
                   status |-> "active",
                   mfa_enabled |-> FALSE,
                   mfa_secret_enc |-> NullBlob,
                   email_verified_at |-> NULL]]
    /\ sessions = << >>
    /\ sidCtr = 0
    /\ devices = << >>
    /\ loginCh = << >>
    /\ enrollCh = << >>
    /\ backupCodes = << >>
    /\ batchCtr = 0
    /\ resets = << >>
    /\ fpEnforceAll = FALSE
    /\ inflight = [r \in Requests |-> Idle]
    /\ emailVer = NoVerifications
    /\ calls = [r \in Requests |-> NoCall]
    /\ resp = Answer("boot", "ok", NULL, NULL, NULL)

\* Verification mails are asked for, possibly twice at once, and their tokens presented;
\* the verified user logs in, enrolls and trusts a device.
NextVerification ==
    \/ Tick
    \/ \E r \in Requests, e \in {Actor, NoSuchEmail} : resendVerificationEmail(r, e)
    \/ \E r \in Requests : sendNewVerificationEmailInsert(r)
    \/ \E tok \in EmailTokens : verifyEmailToken(tok)
    \/ Login(Actor, "pwA", FALSE, NoCookie, "fpA", FALSE)
    \/ (startMfaSetup(Actor) /\ Len(enrollCh') <= 1)
    \/ \E c \in 1..MaxEnrollChallenges : verifyMfaSetup(Actor, c, Totp(TotpSecret(c), now))
    \/ \E c \in 1..MaxLoginChallenges :
          verifyMfaLogin(c, Totp(TotpSecret(1), now), TRUE, "fpA")

SpecVerification == InitTokens /\ [][NextVerification]_vars

\* the last answer is a successful verifyEmailToken
VerifiedNow == resp.op = "verifyEmailToken" /\ resp.code = "ok"

\* the token of the last answer is marked used, its user is stamped verified and has no
\* trusted device left that is not revoked
TokenSpent ==
    /\ \A n \in DOMAIN emailVer.rows :
          emailVer.rows[n].token_hash = Sha256(resp.arg) => emailVer.rows[n].used_at # NULL
    /\ users[resp.user].email_verified_at # NULL
    /\ \A d \in DOMAIN devices :
          devices[d].user_id = resp.user => devices[d].revoked_at # NULL

NextOutstanding ==
    \/ Tick
    \/ \E r \in Requests, e \in {Actor, NoSuchEmail} : resendVerificationEmail(r, e)
    \/ \E r \in Requests : sendNewVerificationEmailInsert(r)
    \/ \E tok \in EmailTokens : verifyEmailToken(tok)
    \/ \E r \in Requests, e \in {Actor, NoSuchEmail} : requestPasswordResetMark(r, e)
    \/ \E r \in Requests : requestPasswordResetInsert(r)
    \/ \E tok \in ResetTokens, pw \in Passwords : resetPasswordWithToken(tok, pw)

SpecOutstanding == InitTokens /\ [][NextOutstanding]_vars

\* the user's password_resets rows with used_at NULL
UnusedResets(userId) ==
    {r \in DOMAIN resets : resets[r].user_id = userId /\ resets[r].used_at = NULL}

\* the user's email_verifications rows with used_at NULL
UnusedVerifications(userId) ==
    {n \in DOMAIN emailVer.rows :
        emailVer.rows[n].user_id = userId /\ emailVer.rows[n].used_at = NULL}

\* C25: in every reachable state, concurrent requestPasswordReset and concurrent
\* sendNewVerificationEmail calls included, each user has at most one unused
\* password-reset token and at most one unused email-verification token.
C25_OneOutstandingToken ==
    \A u \in Users :
        /\ Cardinality(UnusedResets(u)) <= 1
        /\ Cardinality(UnusedVerifications(u)) <= 1

(* ------------------------ the authorization gate ---------------------- *)

\* the expiry test left out of the fallback's checks
SessionUsableIgnoresExpiry(ss, token, t) ==
    /\ SessionFound(ss, token)
    /\ ss[token.sid].revoked_at = NULL
    /\ Sha256(token) = ss[token.sid].refresh_hash

\* authenticateViaRefreshCookie: the row it read passes every test of its `if`
SessionUsable(ss, token, t) ==
    /\ SessionFound(ss, token)
    /\ ss[token.sid].revoked_at = NULL
    /\ ~(ss[token.sid].expires_at < t)
    /\ Sha256(token) = ss[token.sid].refresh_hash

\* the row exists and its stored hash is not the hash of the cookie token
HashMismatch(ss, token) ==
    SessionFound(ss, token) /\ Sha256(token) # ss[token.sid].refresh_hash

\* requireAuth for a request without a bearer header whose refresh cookie is `token`: a
\* token that verifyRefresh refuses ends in next(err); a row that fails a test answers
\* 401 'No token', after an UPDATE of revoked_at when its hash differs; otherwise the
\* user's id and role are attached
requireAuth(token) ==
    LET code == IF ~VerifyRefreshOk(token) THEN "InvalidToken"
                ELSE IF SessionUsable(sessions, token, now) THEN "ok"
                ELSE "NoToken"
    IN
    /\ sessions' = IF VerifyRefreshOk(token) /\ HashMismatch(sessions, token)
                   THEN RevokeSession(sessions, token.sid)
                   ELSE sessions
    /\ resp' = Answer("requireAuth", code, IF code = "ok" THEN token.sub ELSE NULL, token,
                      NULL)
    /\ UNCHANGED <<now, users, sidCtr, devices, loginCh, enrollCh, backupCodes, batchCtr,
                   resets, fpEnforceAll, inflight, emailVer, calls>>

\* The user logs in, rotates and logs out; requests without a bearer header carry any
\* refresh cookie the server signed, a forged one, or one for a row that is not there.
NextGate ==
    \/ Tick
    \/ \E rem \in BOOLEAN : Login(Actor, "pwA", rem, NoCookie, "fpA", FALSE)
    \/ \E tok \in RefreshTokens : Refresh(tok)
    \/ \E tok \in IssuedTokens : Logout(tok)
    \/ \E tok \in RefreshTokens : requireAuth(tok)

SpecGate == Init /\ [][NextGate]_vars

\* C26: requireAuth without a bearer header attaches an identity only if the session row
\* of the refresh cookie exists for the token's user, is unrevoked, unexpired and stores
\* the hash of the cookie token; the fallback inserts no session row and modifies none.
C26_FallbackReadsOnly ==
    [][resp'.op = "requireAuth" =>
          /\ resp'.code = "ok" =>
                /\ resp'.user = resp'.arg.sub
                /\ SessionFound(sessions, resp'.arg)
                /\ sessions[resp'.arg.sid].revoked_at = NULL
                /\ sessions[resp'.arg.sid].expires_at >= now
                /\ sessions[resp'.arg.sid].refresh_hash = Sha256(resp'.arg)
          /\ sessions' = sessions
          /\ sidCtr' = sidCtr]_vars

\* an identity was attached from the cookie of a session that a rotation made
C26_IdentityFromCookie ==
    /\ resp.op = "requireAuth"
    /\ resp.code = "ok"
    /\ \E s \in DOMAIN sessions : sessions[s].replaced_by = resp.arg.sid

(* --------------------------- expiry of proofs ------------------------- *)

\* One user verifies the e-mail address, logs in, enrolls, meets the login challenge and
\* resets the password, while time passes and nothing removes an expired row.
NextExpiry ==
    \/ Tick
    \/ resendVerificationEmail(1, Actor)
    \/ sendNewVerificationEmailInsert(1)
    \/ \E tok \in EmailTokens : verifyEmailToken(tok)
    \/ Login(Actor, "pwA", FALSE, NoCookie, "fpA", FALSE)
    \/ (startMfaSetup(Actor) /\ Len(enrollCh') <= 1)
    \/ \E c \in 1..MaxEnrollChallenges : verifyMfaSetup(Actor, c, Totp(TotpSecret(c), now))
    \/ \E c \in 1..MaxLoginChallenges :
          verifyMfaLogin(c, Totp(TotpSecret(1), now), FALSE, "fpA")
    \/ (requestPasswordReset(Actor) /\ Len(resets') <= 1)
    \/ \E tok \in ResetTokens : resetPasswordWithToken(tok, "pwB")

SpecExpiry == InitTokens /\ [][NextExpiry]_vars

\* the rows of a token whose expires_at has passed
PastVerifications(token) ==
    {n \in DOMAIN emailVer.rows : /\ emailVer.rows[n].token_hash = Sha256(token)
                                  /\ emailVer.rows[n].expires_at < now}
PastResets(token) ==
    {r \in DOMAIN resets : resets[r].token_hash = Sha256(token) /\ resets[r].expires_at < now}

\* C27: a login challenge, enrollment challenge, email-verification token or
\* password-reset token whose expires_at has passed is never accepted: the operation
\* using it fails and creates no session, enables no MFA, verifies no email and changes
\* no password.
C27_ExpiredNeverAccepted ==
    /\ [][\A c \in DOMAIN loginCh :
            loginCh[c].expires_at < now
            /\ verifyMfaLogin(c, Totp(TotpSecret(1), now), FALSE, "fpA")
            => resp'.code # "ok" /\ sessions' = sessions /\ sidCtr' = sidCtr]_vars
    /\ [][resp'.op = "verifyMfaSetup" /\ resp'.arg \in DOMAIN enrollCh
            /\ enrollCh[resp'.arg].expires_at < now
            => resp'.code # "ok" /\ users' = users]_vars
    /\ [][resp'.op = "verifyEmailToken" /\ PastVerifications(resp'.arg) # {}
            => resp'.code # "ok" /\ users' = users /\ emailVer' = emailVer]_vars
    /\ [][resp'.op = "resetPasswordWithToken" /\ PastResets(resp'.arg.token) # {}
            => resp'.code # "ok" /\ users' = users /\ resets' = resets]_vars

\* an enrolled user's login challenge was refused as expired while an expired reset token
\* and an expired enrollment challenge are still stored
C27_ExpiredRefused ==
    /\ resp.op = "verifyMfaLogin"
    /\ resp.code = "ChallengeExpired"
    /\ \E r \in DOMAIN resets : resets[r].used_at = NULL /\ resets[r].expires_at < now
    /\ \E c \in DOMAIN enrollCh : enrollCh[c].expires_at < now

(* ------------- verifyMfaLogin, one storage call at a time ------------- *)

\* The request r reads the challenge and checks it (lines 492-513): a refused request
\* answers at once; a matching TOTP goes on to consume the challenge, any other code to
\* the backup-code lookup.
verifyMfaLoginRead(r, challengeId, code) ==
    LET rec == loginCh[challengeId]
        u == users[rec.user_id]
        early == IF challengeId \notin DOMAIN loginCh THEN "InvalidChallenge"
                 ELSE IF rec.consumed_at # NULL THEN "InvalidChallenge"
                 ELSE IF rec.expires_at < now THEN "ChallengeExpired"
                 ELSE IF IsSixDigits(code) /\ u.mfa_secret_enc = NullBlob
                      THEN "MfaMisconfigured"
                 ELSE "none"
        totpOk == IsSixDigits(code) /\ verifyTotp(code, decryptFromBlob(u.mfa_secret_enc), now)
    IN
    /\ calls[r].pc = "idle"
    /\ \/ /\ early # "none"
          /\ resp' = Answer("verifyMfaLogin", early, NULL, NULL, NULL)
          /\ UNCHANGED calls
       \/ /\ early = "none"
          /\ calls' = [calls EXCEPT ![r] =
                          [pc |-> IF totpOk THEN "consume" ELSE "backup_select",
                           cid |-> challengeId, code |-> code, user |-> rec.user_id,
                           remember |-> rec.remember, row |-> NULL, sid |-> NULL]]
          /\ UNCHANGED resp
    /\ UNCHANGED <<now, dbVars, fpEnforceAll, inflight, emailVer>>

\* SELECT id FROM mfa_backup_codes WHERE user_id = ? AND code_hash = ? AND used_at IS NULL
verifyMfaLoginBackupSelect(r) ==
    LET rows == UnusedBackupRows(backupCodes, calls[r].user,
                                 backupHash(UpperTrim(calls[r].code)))
    IN
    /\ calls[r].pc = "backup_select"
    /\ \/ /\ rows = {}
          /\ calls' = [calls EXCEPT ![r] = NoCall]
          /\ resp' = Answer("verifyMfaLogin", "InvalidCode", calls[r].user,
                            [cid |-> calls[r].cid, code |-> calls[r].code], NULL)
       \/ /\ rows # {}
          /\ calls' = [calls EXCEPT ![r].pc = "backup_mark",
                                    ![r].row = CHOOSE x \in rows : TRUE]
          /\ UNCHANGED resp
    /\ UNCHANGED <<now, dbVars, fpEnforceAll, inflight, emailVer>>

\* UPDATE mfa_backup_codes SET used_at = NOW() WHERE id = ?
verifyMfaLoginBackupMark(r) ==
    /\ calls[r].pc = "backup_mark"
    /\ backupCodes' = MarkBackupUsed(backupCodes, calls[r].row)
    /\ calls' = [calls EXCEPT ![r].pc = "consume"]
    /\ UNCHANGED <<now, users, sessions, sidCtr, devices, loginCh, enrollCh, batchCtr,
                   resets, fpEnforceAll, inflight, emailVer, resp>>

\* UPDATE mfa_login_challenges SET consumed_at = NOW() WHERE id = ?
verifyMfaLoginConsume(r) ==
    /\ calls[r].pc = "consume"
    /\ loginCh' = ConsumeLoginChallenge(loginCh, calls[r].cid)
    /\ calls' = [calls EXCEPT ![r].pc = "insert"]
    /\ UNCHANGED <<now, users, sessions, sidCtr, devices, enrollCh, backupCodes, batchCtr,
                   resets, fpEnforceAll, inflight, emailVer, resp>>

\* INSERT INTO sessions, the cookie and the answer (no rememberDevice); the finished
\* request stays in its slot with the session it made
verifyMfaLoginInsert(r) ==
    /\ calls[r].pc = "insert"
    /\ IssueSession(calls[r].user, calls[r].remember)
    /\ calls' = [calls EXCEPT ![r].pc = "done", ![r].sid = sidCtr + 1]
    /\ resp' = Answer("verifyMfaLogin", "ok", calls[r].user,
                      [cid |-> calls[r].cid, code |-> calls[r].code], sidCtr + 1)
    /\ UNCHANGED <<now, users, devices, loginCh, enrollCh, backupCodes, batchCtr, resets,
                   fpEnforceAll, inflight, emailVer>>

\* the codes the two requests type: the current TOTP, a stored backup code, a wrong code
RaceCodes == {Totp(TotpSecret(1), now), GeneratedCode(1, 1), BackupText(0, 1, 0)}

\* The user enrolls and logs in twice; two verifications run at once.
NextMfaRace ==
    \/ Login(Actor, "pwA", FALSE, NoCookie, "fpA", FALSE)
    \/ (startMfaSetup(Actor) /\ Len(enrollCh') <= 1)
    \/ \E c \in 1..MaxEnrollChallenges : verifyMfaSetup(Actor, c, Totp(TotpSecret(c), now))
    \/ \E r \in Requests, c \in 1..MaxLoginChallenges, code \in RaceCodes :
          verifyMfaLoginRead(r, c, code)
    \/ \E r \in Requests : verifyMfaLoginBackupSelect(r)
    \/ \E r \in Requests : verifyMfaLoginBackupMark(r)
    \/ \E r \in Requests : verifyMfaLoginConsume(r)
    \/ \E r \in Requests : verifyMfaLoginInsert(r)

SpecMfaRace == Init /\ [][NextMfaRace]_vars

\* the requests that finished with a session
Succeeded == {r \in Requests : calls[r].pc = "done"}

\* C28: when two verifyMfaLogin calls on two different pending challenges of the same
\* user present the same unused backup code and interleave in any order, at most one of
\* them succeeds: one backup code never yields two sessions.
C28_BackupCodeOneSession ==
    \A r1, r2 \in Succeeded :
        /\ r1 # r2
        /\ calls[r1].cid # calls[r2].cid
        /\ calls[r1].row # NULL
        => calls[r1].row # calls[r2].row

\* C29: under any interleaving of verifyMfaLogin calls on the same login challenge, each
\* with a correct code, at most one session is ever created from that challenge.
C29_ChallengeOneSession ==
    \A c \in DOMAIN loginCh :
        Cardinality({calls[r].sid : r \in {x \in Succeeded : calls[x].cid = c}}) <= 1

(* --------------- disableMfa, one storage call at a time --------------- *)

\* The request r reads the user, checks the password and the code and looks the backup
\* code up (lines 413-443): a refused request answers at once.
disableMfaCheck(r, userId, password, code) ==
    LET verdict == disableMfaVerdict(userId, password, code)
        totpOk == IsSixDigits(code)
                  /\ verifyTotp(code, decryptFromBlob(users[userId].mfa_secret_enc), now)
    IN
    /\ calls[r].pc = "idle"
    /\ HasAuthenticated(userId)
    /\ \/ /\ verdict # "ok"
          /\ resp' = Answer("disableMfa", verdict, userId, NULL, NULL)
          /\ UNCHANGED calls
       \/ /\ verdict = "ok"
          /\ calls' = [calls EXCEPT ![r] =
                          [pc |-> IF totpOk THEN "clear" ELSE "mark", user |-> userId,
                           row |-> IF totpOk THEN NULL
                                   ELSE CHOOSE x \in DisableBackupRows(userId, code) : TRUE]]
          /\ UNCHANGED resp
    /\ UNCHANGED <<now, dbVars, fpEnforceAll, inflight, emailVer>>

\* UPDATE mfa_backup_codes SET used_at = NOW() WHERE id = ?
disableMfaMark(r) ==
    /\ calls[r].pc = "mark"
    /\ backupCodes' = MarkBackupUsed(backupCodes, calls[r].row)
    /\ calls' = [calls EXCEPT ![r].pc = "clear"]
    /\ UNCHANGED <<now, users, sessions, sidCtr, devices, loginCh, enrollCh, batchCtr,
                   resets, fpEnforceAll, inflight, emailVer, resp>>

\* UPDATE users SET mfa_enabled = 0, mfa_secret_enc = NULL WHERE id = ?
disableMfaClear(r) ==
    /\ calls[r].pc = "clear"
    /\ users' = ClearMfa(users, calls[r].user)
    /\ calls' = [calls EXCEPT ![r].pc = "delete"]
    /\ UNCHANGED <<now, sessions, sidCtr, devices, loginCh, enrollCh, backupCodes, batchCtr,
                   resets, fpEnforceAll, inflight, emailVer, resp>>

\* DELETE FROM mfa_backup_codes WHERE user_id = ?
disableMfaDelete(r) ==
    /\ calls[r].pc = "delete"
    /\ backupCodes' = DeleteBackupCodes(backupCodes, calls[r].user)
    /\ calls' = [calls EXCEPT ![r].pc = "revoke"]
    /\ UNCHANGED <<now, users, sessions, sidCtr, devices, loginCh, enrollCh, batchCtr,
                   resets, fpEnforceAll, inflight, emailVer, resp>>

\* revokeAllTrustedDevices and the answer: the UPDATE either takes effect or fails, and
\* its failure is caught and logged, so the request answers ok in both cases
disableMfaRevoke(r, failed) ==
    /\ calls[r].pc = "revoke"
    /\ devices' = IF failed THEN devices ELSE revokeAllTrustedDevices(devices, calls[r].user)
    /\ calls' = [calls EXCEPT ![r] = NoCall]
    /\ resp' = Answer("disableMfa", "ok", calls[r].user, NULL, NULL)
    /\ UNCHANGED <<now, users, sessions, sidCtr, loginCh, enrollCh, backupCodes, batchCtr,
                   resets, fpEnforceAll, inflight, emailVer>>

\* the request ends before its next storage call: the query throws, or the process stops
disableMfaStops(r) ==
    /\ calls[r].pc \in {"mark", "clear", "delete", "revoke"}
    /\ calls' = [calls EXCEPT ![r] = NoCall]
    /\ resp' = Answer("disableMfa", "InternalError", calls[r].user, NULL, NULL)
    /\ UNCHANGED <<now, dbVars, fpEnforceAll, inflight, emailVer>>

\* The user enrolls, logs in with a remembered device and disables MFA with the TOTP or
\* a backup code; the request may end at any of its storage calls.
NextDisable ==
    \/ Login(Actor, "pwA", FALSE, NoCookie, "fpA", FALSE)
    \/ (startMfaSetup(Actor) /\ Len(enrollCh') <= 1)
    \/ \E c \in 1..MaxEnrollChallenges : verifyMfaSetup(Actor, c, Totp(TotpSecret(c), now))
    \/ \E c \in 1..MaxLoginChallenges, rd \in BOOLEAN :
          verifyMfaLogin(c, Totp(TotpSecret(1), now), rd, "fpA")
    \/ \E code \in RaceCodes : disableMfaCheck(1, Actor, "pwA", code)
    \/ disableMfaMark(1)
    \/ disableMfaClear(1)
    \/ disableMfaDelete(1)
    \/ \E failed \in BOOLEAN : disableMfaRevoke(1, failed)
    \/ disableMfaStops(1)

SpecDisable == Init /\ [][NextDisable]_vars

\* C30: if disableMfa fails or the process stops after any one of its storage writes, the
\* state is never left with mfa_enabled cleared while the user's trusted devices are
\* still non-revoked, and a failed revocation write is not ignored: once the request has
\* ended, a user whose mfa_enabled is cleared has no trusted device that is not revoked.
C30_NoTrustLeftAfterDisable ==
    \A u \in Users :
        /\ \A r \in Requests : calls[r].pc = "idle"
        /\ ~users[u].mfa_enabled
        => \A d \in DOMAIN devices : devices[d].user_id = u => devices[d].revoked_at # NULL

(* ------------------------- atomicity of rotation ---------------------- *)

\* C31: rotation is atomic: whenever no refresh is between two of its storage calls, a
\* failed one included, a session row whose replaced_by is X implies that a session row
\* with id X exists; refresh never leaves the presented session revoked without its
\* successor inserted.
C31_SuccessorExists ==
    (\A r \in Requests : inflight[r].pc \in {"idle", "done"})
    => \A s \in DOMAIN sessions :
          sessions[s].replaced_by # NULL => sessions[s].replaced_by \in DOMAIN sessions

(* -------------------- validation without revocation ------------------- *)

\* the login of the step carried the cookie of a stored device of its user with another
\* token, or from another fingerprint while fingerprints are enforced
MismatchedCookie(ans) ==
    /\ ans.op = "login"
    /\ ans.user # NULL
    /\ users[ans.user].mfa_enabled
    /\ DeviceRowFound(devices, ans.arg.cookie)
    /\ devices[ans.arg.cookie.id].user_id = ans.user
    /\ \/ Sha256(ans.arg.cookie.token) # devices[ans.arg.cookie.id].token_hash
       \/ /\ users[ans.user].role = "admin" \/ fpEnforceAll
          /\ Sha256(ans.arg.fp) # devices[ans.arg.cookie.id].fingerprint

\* C32: validateTrustedCookie never revokes a trusted-device row: on a token-hash or a
\* fingerprint mismatch it returns false (the login is challenged) and leaves every
\* device row unchanged, so a cookie validates after the request exactly when it did
\* before, from every fingerprint.
C32_MismatchDoesNotRevoke ==
    [][MismatchedCookie(resp') =>
          /\ resp'.code = "mfaRequired"
          /\ devices' = devices
          /\ \A c \in Cookies, fp \in Fingerprints :
                validateTrustedCookie(devices', c, resp'.user, users[resp'.user].role, fp,
                                      now, fpEnforceAll)
                = validateTrustedCookie(devices, c, resp'.user, users[resp'.user].role, fp,
                                        now, fpEnforceAll)]_vars

\* a login with a mismatched cookie was challenged and the device it named is still valid
\* with its own token
C32_StillTrusted ==
    /\ MismatchedCookie(resp)
    /\ resp.code = "mfaRequired"
    /\ validateTrustedCookie(devices, DeviceCookie(resp.arg.cookie.id, resp.arg.cookie.id),
                             resp.user, users[resp.user].role, "fpA", now, fpEnforceAll)

(* ------------------ where trusted devices come from ------------------- *)

\* the step inserted a trusted_devices row
DeviceCreated == DOMAIN devices' # DOMAIN devices

\* C33: a trusted-device row is created only by a successful verifyMfaLogin called with
\* rememberDevice = true; password login, trusted-device bypass login, refresh, logoutAll
\* and failed or rememberDevice = false verifications create none.
C33_DeviceOnlyFromRememberedMfa ==
    /\ [][DeviceCreated => /\ resp'.op = "verifyMfaLogin"
                           /\ resp'.code = "ok"
                           /\ \E c \in 1..MaxLoginChallenges :
                                 verifyMfaLogin(c, Totp(TotpSecret(1), now), TRUE, "fpA")]_vars
    /\ [][\A c \in 1..MaxLoginChallenges :
            verifyMfaLogin(c, Totp(TotpSecret(1), now), FALSE, "fpA") => ~DeviceCreated]_vars

\* a remembered verification created the user's trusted device, after password logins
\* that created none
C33_DeviceFromRememberedMfa ==
    /\ resp.op = "verifyMfaLogin"
    /\ resp.code = "ok"
    /\ Len(devices) = 1
    /\ devices[1].user_id = resp.user
    /\ devices[1].revoked_at = NULL
    /\ Cardinality(DOMAIN sessions) >= 2

(* ------------------------ enrollment challenges ----------------------- *)

\* Both users are logged in; one starts enrollments, and either of them answers them with
\* a right or a wrong code.
NextSetup ==
    \/ \E u \in Users : Login(u, "pwA", FALSE, NoCookie, "fpA", FALSE)
    \/ startMfaSetup(Actor)
    \/ \E u \in Users, c \in 1..MaxEnrollChallenges, code \in TypedTotp(now) :
          verifyMfaSetup(u, c, code)

SpecSetup == Init /\ [][NextSetup]_vars

\* C34: an enrollment challenge is consumed only by a successful verifyMfaSetup of the
\* user it was created for; once consumed, every later verifyMfaSetup on its id fails with
\* InvalidChallenge and changes nothing; verifyMfaSetup with a wrong code leaves the
\* challenge unconsumed and mfa_enabled unchanged.
C34_EnrollmentChallengeSingleUse ==
    /\ [][\A c \in DOMAIN enrollCh :
            enrollCh[c].consumed_at = NULL /\ enrollCh'[c].consumed_at # NULL
            => /\ resp'.op = "verifyMfaSetup"
               /\ resp'.code = "ok"
               /\ resp'.arg = c
               /\ resp'.user = enrollCh[c].user_id]_vars
    /\ [][\A u \in Users, c \in DOMAIN enrollCh, code \in TypedTotp(now) :
            enrollCh[c].consumed_at # NULL /\ verifyMfaSetup(u, c, code)
            => resp'.code = "InvalidChallenge" /\ UNCHANGED dbVars]_vars
    /\ [][\A u \in Users, c \in DOMAIN enrollCh, code \in TypedTotp(now) :
            /\ ~verifyTotp(code, decryptFromBlob(enrollCh[c].secret_enc), now)
            /\ verifyMfaSetup(u, c, code)
            => /\ resp'.code # "ok"
               /\ enrollCh' = enrollCh
               /\ \A v \in Users : users'[v].mfa_enabled = users[v].mfa_enabled]_vars

\* the owner of a consumed enrollment challenge presented it again and was refused
C34_ConsumedChallengeRefused ==
    /\ resp.op = "verifyMfaSetup"
    /\ resp.code = "InvalidChallenge"
    /\ resp.arg \in DOMAIN enrollCh
    /\ enrollCh[resp.arg].consumed_at # NULL
    /\ enrollCh[resp.arg].user_id = resp.user

(* --------------------------- the MFA states --------------------------- *)

\* C35: startMfaSetup is rejected with MfaAlreadyEnabled while MFA is enabled, and while
\* mfa_enabled stays true no operation, verifyMfaSetup on an enrollment challenge started
\* before MFA was enabled included, replaces the stored secret.
C35_SecretFixedWhileEnabled ==
    /\ [][resp'.op = "startMfaSetup" /\ users[resp'.user].mfa_enabled
            => resp'.code = "MfaAlreadyEnabled" /\ enrollCh' = enrollCh]_vars
    /\ [][\A u \in Users :
            users[u].mfa_enabled /\ users'[u].mfa_enabled
            => users'[u].mfa_secret_enc = users[u].mfa_secret_enc]_vars

(* --------------------- rows only ever move forward -------------------- *)

\* A newly registered user verifies the e-mail address and then uses every operation that
\* revokes, consumes or marks a row.
NextMonotone ==
    \/ resendVerificationEmail(1, Actor)
    \/ sendNewVerificationEmailInsert(1)
    \/ \E tok \in EmailTokens : verifyEmailToken(tok)
    \/ Login(Actor, "pwA", FALSE, NoCookie, "fpA", FALSE)
    \/ \E tok \in IssuedTokens : Refresh(tok)
    \/ \E tok \in IssuedTokens : Logout(tok)
    \/ LogoutAll(Actor)
    \/ (startMfaSetup(Actor) /\ Len(enrollCh') <= 1)
    \/ \E c \in 1..MaxEnrollChallenges : verifyMfaSetup(Actor, c, Totp(TotpSecret(c), now))
    \/ \E c \in 1..MaxLoginChallenges, code \in RaceCodes :
          verifyMfaLogin(c, code, TRUE, "fpA")
    \/ regenerateBackupCodes(Actor)
    \/ \E code \in RaceCodes : disableMfa(Actor, "pwA", code)
    \/ \E d \in 1..MaxDevices : revokeTrustedDevice(Actor, d)
    \/ (requestPasswordReset(Actor) /\ Len(resets') <= 1)
    \/ \E tok \in ResetTokens : resetPasswordWithToken(tok, "pwB")

SpecMonotone == InitTokens /\ [][NextMonotone]_vars

\* C36: sessions are append-only and revocation is monotonic: no step removes a session
\* row or changes its refresh-token hash, and once a session or trusted device is revoked,
\* a backup code or single-use token is used, or a challenge is consumed, it stays so in
\* every later state (a row that a DELETE removes is no longer usable either).
C36_RowsOnlyMoveForward ==
    [][/\ \A s \in DOMAIN sessions :
             /\ s \in DOMAIN sessions'
             /\ sessions'[s].refresh_hash = sessions[s].refresh_hash
             /\ sessions[s].revoked_at # NULL => sessions'[s].revoked_at # NULL
       /\ \A d \in DOMAIN devices :
             /\ d \in DOMAIN devices'
             /\ devices[d].revoked_at # NULL => devices'[d].revoked_at # NULL
       /\ \A b \in DOMAIN backupCodes :
             backupCodes[b].used_at # NULL
             => b \notin DOMAIN backupCodes' \/ backupCodes'[b].used_at # NULL
       /\ \A r \in DOMAIN resets :
             /\ r \in DOMAIN resets'
             /\ resets[r].used_at # NULL => resets'[r].used_at # NULL
       /\ \A n \in DOMAIN emailVer.rows :
             emailVer.rows[n].used_at # NULL
             => n \notin DOMAIN emailVer'.rows \/ emailVer'.rows[n].used_at # NULL
       /\ \A c \in DOMAIN loginCh :
             /\ c \in DOMAIN loginCh'
             /\ loginCh[c].consumed_at # NULL => loginCh'[c].consumed_at # NULL
       /\ \A c \in DOMAIN enrollCh :
             /\ c \in DOMAIN enrollCh'
             /\ enrollCh[c].consumed_at # NULL => enrollCh'[c].consumed_at # NULL]_vars

\* a rotated session, a revoked device, a used backup code and a consumed login
\* challenge exist together
C36_SpentRows ==
    /\ \E s \in DOMAIN sessions : sessions[s].replaced_by # NULL
    /\ \E d \in DOMAIN devices : devices[d].revoked_at # NULL
    /\ \E b \in DOMAIN backupCodes : backupCodes[b].used_at # NULL
    /\ \E c \in DOMAIN loginCh : loginCh[c].consumed_at # NULL
    /\ \E n \in DOMAIN emailVer.rows : emailVer.rows[n].used_at # NULL

(* --------------------------- disabled accounts ------------------------ *)

\* An administrator sets users.status to 'disabled'. No statement under src/ writes the
\* column after registration; the step stands for the account administration that does.
DisableUser(userId) ==
    /\ users[userId].status = "active"
    /\ users' = [users EXCEPT ![userId].status = "disabled"]
    /\ resp' = Answer("disableUser", "ok", userId, NULL, NULL)
    /\ UNCHANGED <<now, sessions, sidCtr, devices, loginCh, enrollCh, backupCodes, batchCtr,
                   resets, fpEnforceAll, inflight, emailVer, calls>>

\* The user logs in, enrolls, meets login challenges and rotates tokens; at some moment
\* the account is disabled.
NextStatus ==
    \/ Login(Actor, "pwA", FALSE, NoCookie, "fpA", FALSE)
    \/ \E tok \in IssuedTokens : Refresh(tok)
    \/ (startMfaSetup(Actor) /\ Len(enrollCh') <= 1)
    \/ \E c \in 1..MaxEnrollChallenges : verifyMfaSetup(Actor, c, Totp(TotpSecret(c), now))
    \/ \E c \in 1..MaxLoginChallenges, rd \in BOOLEAN :
          verifyMfaLogin(c, Totp(TotpSecret(1), now), rd, "fpA")
    \/ DisableUser(Actor)

SpecStatus == Init /\ [][NextStatus]_vars

\* C37: no session is ever issued (by login, trusted-device bypass, verifyMfaLogin or
\* refresh) to a user whose status is not active at the moment of issuance: every session
\* row a step inserts belongs to a user who is active when the step is taken.
C37_SessionsOnlyForActiveUsers ==
    [][\A s \in DOMAIN sessions' \ DOMAIN sessions :
          users[sessions'[s].user_id].status = "active"]_vars

(* ------------------- who can revoke a trusted device ------------------ *)

\* C38: a user's trusted devices are revoked only by operations authorised by that
\* user's own credentials; an unauthenticated request that only names the user's e-mail
\* address (requestPasswordReset, resendVerificationEmail) revokes no trusted device.
C38_EmailAloneRevokesNothing ==
    [][(\E d \in DOMAIN devices :
            devices[d].revoked_at = NULL /\ devices'[d].revoked_at # NULL)
       => resp'.op \notin {"requestPasswordReset", "resendVerificationEmail"}]_vars

(* ------------- login challenges across a password event --------------- *)

\* C39: after a successful changePassword or resetPasswordWithToken, nothing obtained
\* with the old password can still yield a session: no login challenge of the user that
\* exists at that moment is accepted by verifyMfaLogin, whatever code is typed.
C39_ChallengesDieWithPassword ==
    (resp.op \in {"changePassword", "resetPasswordWithToken"} /\ resp.code = "ok") =>
        \A c \in DOMAIN loginCh, code \in TypedCodes(now) :
            loginCh[c].user_id = resp.user => verifyMfaLoginVerdict(c, code) # "ok"

(* ------------------------ isolation between users --------------------- *)

\* Both users sign in, enrol and pass the second factor (one of them remembering the
\* device); the first of them then runs the account operations, naming any device id.
NextIsolation ==
    \/ \E u \in Users : Login(u, "pwA", FALSE, NoCookie, "fpA", FALSE)
    \/ \E tok \in IssuedTokens : (tok.sub = Actor /\ Refresh(tok))
    \/ \E tok \in IssuedTokens : (tok.sub = Actor /\ Logout(tok))
    \/ LogoutAll(Actor)
    \/ \E u \in Users :
          /\ \A c \in DOMAIN enrollCh : enrollCh[c].user_id # u
          /\ startMfaSetup(u)
    \/ \E u \in Users, c \in 1..MaxEnrollChallenges :
          verifyMfaSetup(u, c, Totp(TotpSecret(c), now))
    \/ \E c \in 1..MaxLoginChallenges, s \in 1..MaxEnrollChallenges :
          verifyMfaLogin(c, Totp(TotpSecret(s), now), TRUE, "fpA")
    \/ \E d \in 1..MaxDevices : revokeTrustedDevice(Actor, d)
    \/ \E d \in 1..MaxDevices : untrustCurrentDevice(Actor, d)
    \/ \E s \in 1..MaxEnrollChallenges : disableMfa(Actor, "pwA", Totp(TotpSecret(s), now))
    \/ regenerateBackupCodes(Actor)
    \/ changePassword(Actor, "pwA", "pwB")

SpecIsolation == Init /\ [][NextIsolation]_vars

\* the operations that act for one user
IsolatedOps ==
    {"refresh", "logout", "logoutAll", "revokeTrustedDevice", "untrustCurrentDevice",
     "verifyMfaSetup", "disableMfa", "regenerateBackupCodes", "changePassword"}

\* the user an answer was given to: the subject of the refresh token for refresh and
\* logout, the authenticated user for the others
ActingUser(ans) == IF ans.op \in {"refresh", "logout"} THEN ans.arg.sub ELSE ans.user

\* everything the tables hold about user b: sessions, trusted devices, backup codes and
\* the MFA columns of the users row
RowsOf(b) ==
    <<{<<s, sessions[s]>> : s \in {x \in DOMAIN sessions : sessions[x].user_id = b}},
      {<<d, devices[d]>> : d \in {x \in DOMAIN devices : devices[x].user_id = b}},
      {<<k, backupCodes[k]>> :
          k \in {x \in DOMAIN backupCodes : backupCodes[x].user_id = b}},
      users[b].mfa_enabled, users[b].mfa_secret_enc>>

\* C40: every operation acting for user A (refresh, logout, logoutAll,
\* revokeTrustedDevice, untrustCurrentDevice, verifyMfaSetup, disableMfa,
\* regenerateBackupCodes, changePassword) leaves the sessions, trusted devices, backup
\* codes and MFA state of every other user B unchanged; revokeTrustedDevice on a device
\* id owned by another user fails with DeviceNotFound.
C40_OtherUsersUntouched ==
    /\ [][resp'.op \in IsolatedOps =>
             \A b \in Users : b # ActingUser(resp') => RowsOf(b)' = RowsOf(b)]_vars
    /\ [][(/\ resp'.op = "revokeTrustedDevice"
           /\ resp'.arg \in DOMAIN devices
           /\ devices[resp'.arg].user_id # resp'.user)
          => resp'.code = "DeviceNotFound"]_vars

\* C40 witness: a user named the live trusted device of another user, who also has a
\* live session, MFA switched on and unused backup codes; the answer was DeviceNotFound
C40_ForeignDeviceRefused ==
    /\ resp.op = "revokeTrustedDevice"
    /\ resp.code = "DeviceNotFound"
    /\ resp.arg \in DOMAIN devices
    /\ LET b == devices[resp.arg].user_id
       IN /\ b # resp.user
          /\ devices[resp.arg].revoked_at = NULL
          /\ users[b].mfa_enabled
          /\ \E s \in DOMAIN sessions :
                sessions[s].user_id = b /\ sessions[s].revoked_at = NULL
          /\ \E k \in DOMAIN backupCodes :
                backupCodes[k].user_id = b /\ backupCodes[k].used_at = NULL

====
